---- MODULE Spec2Model ----
(***************************************************************************)
(* Window registry, transaction protocol and overview gestures of the      *)
(* catacomb compositor (src/src/window.rs).                                *)
(*                                                                         *)
(* Conventions                                                             *)
(*  - Option<T> is a sequence of length 0 (None) or 1 (Some(v)).           *)
(*  - A window (Rc<RefCell<Window>>) is a record carrying its identity in  *)
(*    field id; a Weak<RefCell<Window>> is such an id, 0 for Weak::new().  *)
(*    Only the registry's list holds strong references, so a weak          *)
(*    reference upgrades exactly when its id is in the list.               *)
(*  - Indices into the window list are 0-based as in the source.           *)
(*  - Instants are milliseconds. x_offset is kept in units of              *)
(*    1/OVERVIEW_HORIZONTAL_SENSITIVITY page (one unit per pixel dragged). *)
(*  - Overview::x_offset is an f64: the double it holds is                 *)
(*    x_offset / 250 + x_error / (125 * 2^60), x_error being the rounding  *)
(*    error its additions have accumulated.                                *)
(***************************************************************************)
EXTENDS Integers, Sequences, FiniteSets, TLC

VARIABLES
    now,        \* Instant::now()
    created,    \* number of windows ever created (allocates identities)
    inputs,     \* number of touch events delivered so far
    windows,    \* Windows::windows
    primary,    \* Windows::primary
    secondary,  \* Windows::secondary
    transaction,\* Windows::transaction
    view,       \* Windows::view
    panicked,   \* the process was terminated by a panic
    damage,     \* a surface's Damage (drawing.rs)
    call,       \* the last operation on a component outside the registry
    toplevel    \* one window with the buffer state of its surface

\* The registry and its clock.
registry_vars ==
    <<now, created, inputs, windows, primary, secondary, transaction, view, panicked>>

vars == <<now, created, inputs, windows, primary, secondary, transaction, view, panicked,
          damage, call, toplevel>>

(***************************************************************************)
(* Bounds of the model.                                                    *)
(***************************************************************************)
MaxWindows == 3

\* Number of touch events delivered in a behaviour of SpecOverview.
MaxInputs == 3
\* Number of taps delivered in a behaviour of Spec.
MaxTaps == 2
\* Number of clients in SpecOverview.
MaxOverviewWindows == 2
\* Number of dead windows awaiting their purge in SpecOverview.
MaxDead == 1
\* Number of clients in SpecLive.
MaxLiveWindows == 2

(***************************************************************************)
(* Program constants.                                                      *)
(***************************************************************************)
MAX_TRANSACTION_DURATION == 200

OVERVIEW_HORIZONTAL_SENSITIVITY == 250

FG_OVERVIEW_PERCENTAGE == <<3, 4>>

BG_OVERVIEW_PERCENTAGE == <<1, 2>>

\* Mutation: the close distance is two thirds of the output height.
OVERVIEW_CLOSE_DISTANCE_far == <<2, 3>>

OVERVIEW_CLOSE_DISTANCE == <<1, 2>>

HOLD_DURATION == 1000

(***************************************************************************)
(* Option, geometry.                                                       *)
(***************************************************************************)
None == <<>>

Some(v) == <<v>>

Min(a, b) == IF a <= b THEN a ELSE b

Max(a, b) == IF a >= b THEN a ELSE b

Abs(a) == IF a < 0 THEN -a ELSE a

Rect(x, y, w, h) == [x |-> x, y |-> y, w |-> w, h |-> h]

RectSize(r) == [w |-> r.w, h |-> r.h]

DefaultRect == Rect(0, 0, 0, 0)

DefaultSize == [w |-> 0, h |-> 0]

\* Rectangle::contains
Contains(r, p) == /\ p.x >= r.x /\ p.x < r.x + r.w
                  /\ p.y >= r.y /\ p.y < r.y + r.h

(***************************************************************************)
(* Output (external collaborator): logical size and the rectangles of the  *)
(* primary and secondary window.                                           *)
(***************************************************************************)
OutputSize == [w |-> 400, h |-> 600]

primary_rectangle(secondary_visible) ==
    Rect(0, 0, OutputSize.w,
         IF secondary_visible THEN (OutputSize.h + 1) \div 2 ELSE OutputSize.h)

secondary_rectangle ==
    Rect(0, (OutputSize.h + 1) \div 2, OutputSize.w, OutputSize.h \div 2)

(***************************************************************************)
(* Window.                                                                 *)
(***************************************************************************)
\* Window::new
Window_new(id) ==
    [ id |-> id,
      alive |-> TRUE,                   \* surface.alive()
      initial_configure_sent |-> FALSE,
      acked_size |-> DefaultSize,
      rectangle |-> DefaultRect,
      visible |-> FALSE,
      transaction |-> None,             \* Option<WindowTransaction>
      configured |-> None ]             \* size of the last configure sent

\* The size a configure carries: the pending one.
PendingRect(w) ==
    IF w.transaction # None THEN w.transaction[1].rectangle ELSE w.rectangle

\* Window::reconfigure: the send fails silently on a dead surface.
reconfigure(w) ==
    IF w.alive THEN [w EXCEPT !.configured = Some(RectSize(PendingRect(w)))]
    ELSE w

\* Window::start_transaction
Window_start_transaction(w) ==
    IF w.transaction = None
    THEN [w EXCEPT !.transaction = Some([rectangle |-> w.rectangle])]
    ELSE w

\* Mutation: a configure is sent for an unchanged rectangle too.
Window_update_dimensions_redundant(w, rectangle) ==
    LET w1 == Window_start_transaction(w)
        w2 == [w1 EXCEPT !.transaction = Some([rectangle |-> rectangle])]
    IN IF w2.initial_configure_sent THEN reconfigure(w2) ELSE w2

\* Window::update_dimensions
Window_update_dimensions(w, rectangle) ==
    LET w1 == Window_start_transaction(w)
        old_rectangle == w1.transaction[1].rectangle
        w2 == [w1 EXCEPT !.transaction = Some([rectangle |-> rectangle])]
    IN IF rectangle # old_rectangle /\ w2.initial_configure_sent
       THEN reconfigure(w2)
       ELSE w2

\* Window::enter
enter(w) == [w EXCEPT !.visible = TRUE]

\* Window::leave
leave(w) ==
    LET w1 == Window_start_transaction([w EXCEPT !.visible = FALSE])
        rectangle == [w1.transaction[1].rectangle EXCEPT
                        !.w = OutputSize.w, !.h = OutputSize.h]
    IN Window_update_dimensions(w1, rectangle)

\* Mutation: the sub-transaction is applied but not taken.
apply_transaction_kept(w) ==
    IF w.transaction = None THEN w
    ELSE [w EXCEPT !.rectangle = w.transaction[1].rectangle]

\* Window::apply_transaction
apply_transaction(w) ==
    IF w.transaction = None THEN w
    ELSE [w EXCEPT !.rectangle = w.transaction[1].rectangle,
                   !.transaction = None]

(***************************************************************************)
(* Weak references and the window list.                                    *)
(***************************************************************************)
\* Weak::upgrade succeeds / Weak::strong_count > 0
Upgrades(ws, weak) == weak # 0 /\ \E i \in 1..Len(ws) : ws[i].id = weak

strong_count(ws, weak) == IF Upgrades(ws, weak) THEN 1 ELSE 0

\* The window a weak reference upgrades to.
Deref(ws, weak) == ws[CHOOSE i \in 1..Len(ws) : ws[i].id = weak]

\* Write w back through a mutable borrow of the window behind weak.
BorrowMut(ws, weak, w) ==
    IF Upgrades(ws, weak)
    THEN [ws EXCEPT ![CHOOSE i \in 1..Len(ws) : ws[i].id = weak] = w]
    ELSE ws

\* Mutation: the element stays in the list.
Remove_lost(ws, i) == ws

\* Vec::remove at a 0-based index
Remove(ws, i) == SubSeq(ws, 1, i) \o SubSeq(ws, i + 2, Len(ws))

\* slice::swap with 0-based indices
Swap(ws, a, b) == [ws EXCEPT ![a + 1] = ws[b + 1], ![b + 1] = ws[a + 1]]

(***************************************************************************)
(* Overview state and layout.                                              *)
(***************************************************************************)
Point(x, y) == [x |-> x, y |-> y]

Workspace == [kind |-> "Workspace"]

\* Overview::default wrapped in View::Overview
DefaultOverview ==
    [ kind |-> "Overview",
      x_offset |-> 0,
      x_error |-> 0,
      y_offset |-> 0,
      floating_position |-> None,
      last_drag_point |-> Point(0, 0),
      last_overdrag_step |-> None,
      drag_direction |-> None,
      close_release_pending |-> FALSE,
      hold_start |-> None ]

\* Size::scale by a fraction <<n, d>>
ScaleSize(size, f) == [w |-> (size.w * f[1]) \div f[2], h |-> (size.h * f[1]) \div f[2]]

\* n ^ k for naturals
RECURSIVE Pow(_, _)
Pow(n, k) == IF k = 0 THEN 1 ELSE n * Pow(n, k - 1)

\* Mutation: the fraction is truncated.
RoundDiv_truncating(num, den) == num \div den

\* f64::round of the non-negative rational num / den (half away from zero)
RoundDiv(num, den) == (2 * num + den) \div (2 * den)

RECURSIVE GCD(_, _)
GCD(a, b) == IF b = 0 THEN a ELSE GCD(b, a % b)

\* b ^ e modulo m
RECURSIVE PowMod(_, _, _)
PowMod(b, e, m) == IF e = 0 THEN 1 % m ELSE (b * PowMod(b, e - 1, m)) % m

\* One ulp of the doubles next to units / 250, in the unit of x_error: the
\* doubles of [2^q, 2^(q+1)) are 2^(q-52) apart. A power of two reached from
\* below lies with the finer doubles under it.
F64Ulp(units, error) ==
    LET a == Abs(units)
        m == CHOOSE i \in 0..22 :
                 /\ OVERVIEW_HORIZONTAL_SENSITIVITY * Pow(2, i) <= a * 256
                 /\ a * 256 < OVERVIEW_HORIZONTAL_SENSITIVITY * Pow(2, i + 1)
        under == /\ a * 256 = OVERVIEW_HORIZONTAL_SENSITIVITY * Pow(2, m)
                 /\ (units > 0 /\ error < 0) \/ (units < 0 /\ error > 0)
    IN IF under THEN m - 1 ELSE m

\* The rounding of an f64 operation whose exact result is
\* units / 250 + error / (125 * 2^60): the error of the nearest double, ties
\* to the even mantissa. Every operand is a multiple of 2^-60, so a result
\* of units 0 is a double itself.
F64Round(units, error) ==
    IF units = 0 THEN error
    ELSE
    LET m == F64Ulp(units, error)
        ulp == 125 * Pow(2, m)
        \* the exact result modulo two ulps
        rest2 == (Pow(2, m + 1) * (((units % 125) * PowMod(2, 58 - m, 125)) % 125)
                    + error) % (2 * ulp)
        rest == rest2 % ulp
        odd == rest2 >= ulp
    IN IF rest = 0 THEN error
       ELSE IF 2 * rest < ulp \/ (2 * rest = ulp /\ ~odd) THEN error - rest
       ELSE error + ulp - rest

\* f64::powf(0.5, j / 250) for j = 0..249, in units of 2^-23.
POWF_HALF ==
    <<
       8388608, 8365382, 8342220, 8319123, 8296089, 8273120, 8250213, 8227371,
       8204591, 8181875, 8159221, 8136630, 8114102, 8091636, 8069232, 8046891,
       8024611, 8002393, 7980236, 7958141, 7936107, 7914134, 7892221, 7870370,
       7848579, 7826848, 7805177, 7783567, 7762016, 7740525, 7719093, 7697721,
       7676408, 7655154, 7633959, 7612822, 7591744, 7570725, 7549763, 7528860,
       7508014, 7487227, 7466496, 7445824, 7425208, 7404649, 7384148, 7363703,
       7343315, 7322983, 7302707, 7282488, 7262325, 7242217, 7222165, 7202169,
       7182228, 7162342, 7142511, 7122736, 7103015, 7083348, 7063736, 7044178,
       7024675, 7005225, 6985829, 6966487, 6947199, 6927964, 6908782, 6889654,
       6870578, 6851555, 6832585, 6813667, 6794802, 6775989, 6757228, 6738518,
       6719861, 6701256, 6682701, 6664199, 6645747, 6627347, 6608997, 6590699,
       6572451, 6554253, 6536106, 6518009, 6499963, 6481966, 6464019, 6446122,
       6428274, 6410476, 6392727, 6375027, 6357376, 6339774, 6322221, 6304716,
       6287260, 6269852, 6252493, 6235181, 6217917, 6200701, 6183533, 6166413,
       6149339, 6132313, 6115335, 6098403, 6081518, 6064680, 6047888, 6031143,
       6014444, 5997792, 5981185, 5964625, 5948110, 5931642, 5915218, 5898841,
       5882508, 5866221, 5849979, 5833782, 5817630, 5801522, 5785459, 5769441,
       5753466, 5737537, 5721651, 5705809, 5690011, 5674257, 5658546, 5642879,
       5627255, 5611675, 5596138, 5580643, 5565192, 5549783, 5534417, 5519094,
       5503813, 5488574, 5473378, 5458223, 5443111, 5428040, 5413011, 5398024,
       5383078, 5368174, 5353311, 5338489, 5323708, 5308968, 5294269, 5279610,
       5264992, 5250415, 5235878, 5221381, 5206924, 5192508, 5178131, 5163794,
       5149497, 5135239, 5121021, 5106842, 5092702, 5078602, 5064541, 5050518,
       5036535, 5022590, 5008683, 4994816, 4980986, 4967195, 4953442, 4939727,
       4926051, 4912412, 4898810, 4885247, 4871721, 4858232, 4844781, 4831367,
       4817990, 4804650, 4791347, 4778081, 4764852, 4751659, 4738503, 4725384,
       4712300, 4699253, 4686242, 4673267, 4660328, 4647425, 4634557, 4621725,
       4608929, 4596168, 4583442, 4570752, 4558096, 4545476, 4532891, 4520340,
       4507825, 4495344, 4482897, 4470485, 4458108, 4445764, 4433455, 4421180,
       4408939, 4396731, 4384558, 4372418, 4360312, 4348240, 4336200, 4324195,
       4312222, 4300282, 4288376, 4276503, 4264662, 4252854, 4241079, 4229337,
       4217627, 4205949
    >>

\* (bnum / bden * 0.5.powf(exponent / 250)).round(); with beyond the real
\* exponent lies just above exponent / 250, and a product that would be a
\* half falls short of it.
RoundPowf(bnum, bden, exponent, beyond) ==
    LET k == exponent \div OVERVIEW_HORIZONTAL_SENSITIVITY
        j == exponent % OVERVIEW_HORIZONTAL_SENSITIVITY
        twice == 2 * bnum * POWF_HALF[j + 1]
        unit == bden * POWF_HALF[1]
        odd_halves == (twice \div Pow(2, k)) \div unit
        half == /\ j = 0
                /\ twice % Pow(2, k) = 0
                /\ (twice \div Pow(2, k)) % unit = 0
                /\ odd_halves % 2 = 1
    IN IF k > 30 THEN 0
       ELSE IF half /\ beyond THEN (odd_halves + 1) \div 2 - 1
       ELSE (odd_halves + 1) \div 2

\* overview_x_position; the percentages are fractions <<n, d>>, position is
\* the f64 position / 250 + position_error / (125 * 2^60). The power is taken
\* from POWF_HALF: 1 - bg_percentage is a power of one half, as in the
\* overview (1/2) and in the source's test (1/2 and 1/4).
overview_x_position(fg_percentage, bg_percentage, output_width, window_width, position, position_error) ==
    LET \* bg_space_size = output_width * (1 - fg) * 0.5
        bnum0 == output_width * (fg_percentage[2] - fg_percentage[1])
        bden0 == 2 * fg_percentage[2]
        bnum == bnum0 \div GCD(bnum0, bden0)
        bden == bden0 \div GCD(bnum0, bden0)
        halvings == CHOOSE h \in 0..30 :
                        (bg_percentage[2] - bg_percentage[1]) * Pow(2, h) = bg_percentage[2]
        less == position < 0 \/ (position = 0 /\ position_error < 0)
        greater == position > 0 \/ (position = 0 /\ position_error > 0)
        beyond == \/ position > 0 /\ position_error > 0
                  \/ position < 0 /\ position_error < 0
                  \* powf is 1 while its exponent stays below 2^-54 / ln 2
                  \/ position = 0 /\ halvings * Abs(position_error) > 11541
        next_space_size == RoundPowf(bnum, bden, halvings * Abs(position), beyond)
    IN IF less THEN next_space_size
       ELSE IF greater THEN output_width - window_width - next_space_size
       ELSE RoundDiv(bnum, bden)

\* x_offset.min(0.).abs().round(): a half rounds away from zero, an offset
\* whose double falls short of the half rounds toward it.
RoundedOffset(x_offset, x_error) ==
    LET a == Abs(Min(x_offset, 0))
        S == OVERVIEW_HORIZONTAL_SENSITIVITY
    IN IF a % S = S \div 2 /\ x_error > 0 THEN a \div S
       ELSE RoundDiv(a, S)

\* Overview::focused_index. With window_count = 0 the subtraction
\* window_count - 1 overflows: a build with overflow checks panics (see
\* FocusedIndexPanics), one without wraps to usize::MAX.
focused_index(overview, window_count) ==
    IF window_count = 0 THEN RoundedOffset(overview.x_offset, overview.x_error)
    ELSE Min(RoundedOffset(overview.x_offset, overview.x_error), window_count - 1)

FocusedIndexPanics(window_count, overflow_checks) ==
    window_count = 0 /\ overflow_checks

\* Overview::focused_bounds
focused_bounds(overview, output_size, window_count) ==
    LET window_size == ScaleSize(output_size, FG_OVERVIEW_PERCENTAGE)
        \* self.focused_index(window_count) as f64 + self.x_offset
        position == focused_index(overview, window_count) * OVERVIEW_HORIZONTAL_SENSITIVITY
                        + overview.x_offset
        x == overview_x_position(
                FG_OVERVIEW_PERCENTAGE, BG_OVERVIEW_PERCENTAGE,
                output_size.w, window_size.w,
                position, F64Round(position, overview.x_error))
        y == (output_size.h - window_size.h) \div 2
    IN Rect(x, y, window_size.w, window_size.h)

(***************************************************************************)
(* Transaction and the registry's staging operations. A registry r is the  *)
(* record of the fields of Windows; t is Instant::now() at the call.       *)
(***************************************************************************)
Registry == [ windows |-> windows, primary |-> primary, secondary |-> secondary,
              transaction |-> transaction, view |-> view, panicked |-> panicked ]

\* A panic: the handler does not return, the process ends.
Panic(r) == [r EXCEPT !.panicked = TRUE]

\* Transaction::new
Transaction_new(r, t) ==
    [ primary |-> r.primary, secondary |-> r.secondary, view |-> None, start |-> t ]

\* Mutation: an open transaction is replaced by a new one.
start_transaction_fresh(r, t) ==
    [r EXCEPT !.transaction = Some(Transaction_new(r, t))]

\* Mutation: amending an open transaction restarts its clock.
start_transaction_restarting(r, t) ==
    IF r.transaction = None
    THEN [r EXCEPT !.transaction = Some(Transaction_new(r, t))]
    ELSE [r EXCEPT !.transaction[1].start = t]

\* Windows::start_transaction: self.transaction.get_or_insert(Transaction::new(self))
start_transaction(r, t) ==
    IF r.transaction = None
    THEN [r EXCEPT !.transaction = Some(Transaction_new(r, t))]
    ELSE r

\* Transaction::update_dimensions, on the window list ws
Transaction_update_dimensions(ws, tx) ==
    LET secondary_visible == strong_count(ws, tx.secondary) > 0
        ws1 == IF Upgrades(ws, tx.primary)
               THEN BorrowMut(ws, tx.primary,
                        Window_update_dimensions(Deref(ws, tx.primary),
                                                 primary_rectangle(secondary_visible)))
               ELSE ws
    IN IF Upgrades(ws1, tx.secondary)
       THEN BorrowMut(ws1, tx.secondary,
                Window_update_dimensions(Deref(ws1, tx.secondary), secondary_rectangle))
       ELSE ws1

\* Windows::set_primary; index is an Option<usize>
set_primary(r, t, index) ==
    IF index # None /\ index[1] >= Len(r.windows) THEN Panic(start_transaction(r, t))
    ELSE
    LET r0 == start_transaction(r, t)
        tx0 == r0.transaction[1]
        ws0 == r0.windows
        \* window.map(Rc::downgrade).unwrap_or_else(|| mem::take(&mut transaction.secondary))
        weak_window == IF index # None THEN ws0[index[1] + 1].id ELSE tx0.secondary
        tx1 == IF index # None THEN tx0 ELSE [tx0 EXCEPT !.secondary = 0]
    IN IF weak_window = tx1.primary
       THEN [r0 EXCEPT !.transaction = Some(tx1)]
       ELSE
       LET \* Update output's visible windows.
           ws1 == IF Upgrades(ws0, tx1.primary)
                  THEN BorrowMut(ws0, tx1.primary, leave(Deref(ws0, tx1.primary))) ELSE ws0
           ws2 == IF index # None THEN BorrowMut(ws1, weak_window, enter(Deref(ws1, weak_window))) ELSE ws1
           \* Clear secondary if it's the new primary.
           tx2 == IF weak_window = tx1.secondary
                  THEN [tx1 EXCEPT !.secondary = 0] ELSE tx1
           \* Set primary and move old one to secondary if it is empty.
           old_primary == tx2.primary
           tx3 == [tx2 EXCEPT !.primary = weak_window]
           tx4 == IF strong_count(ws2, tx3.secondary) = 0
                  THEN [tx3 EXCEPT !.secondary = old_primary] ELSE tx3
       IN [r0 EXCEPT !.transaction = Some(tx4),
                     !.windows = Transaction_update_dimensions(ws2, tx4)]

\* Mutation: the primary is not cleared when it becomes the secondary.
set_secondary_keeps_primary(r, t, index) ==
    IF index # None /\ index[1] >= Len(r.windows) THEN Panic(start_transaction(r, t))
    ELSE
    LET r0 == start_transaction(r, t)
        tx0 == r0.transaction[1]
        ws0 == r0.windows
        ws1 == IF Upgrades(ws0, tx0.secondary)
               THEN BorrowMut(ws0, tx0.secondary, leave(Deref(ws0, tx0.secondary))) ELSE ws0
        ws2 == IF index # None
               THEN BorrowMut(ws1, ws0[index[1] + 1].id, enter(ws1[index[1] + 1])) ELSE ws1
        tx2 == [tx0 EXCEPT !.secondary =
                    IF index # None THEN ws0[index[1] + 1].id ELSE 0]
    IN [r0 EXCEPT !.transaction = Some(tx2),
                  !.windows = Transaction_update_dimensions(ws2, tx2)]

\* Windows::set_secondary; index is an Option<usize>
set_secondary(r, t, index) ==
    IF index # None /\ index[1] >= Len(r.windows) THEN Panic(start_transaction(r, t))
    ELSE
    LET r0 == start_transaction(r, t)
        tx0 == r0.transaction[1]
        ws0 == r0.windows
        \* Update output's visible windows.
        ws1 == IF Upgrades(ws0, tx0.secondary)
               THEN BorrowMut(ws0, tx0.secondary, leave(Deref(ws0, tx0.secondary))) ELSE ws0
        ws2 == IF index # None
               THEN BorrowMut(ws1, ws0[index[1] + 1].id, enter(ws1[index[1] + 1])) ELSE ws1
        \* Clear primary if it's the new secondary.
        tx1 == IF index # None /\ ws0[index[1] + 1].id = tx0.primary
               THEN [tx0 EXCEPT !.primary = 0] ELSE tx0
        \* weak_window.unwrap_or_default()
        tx2 == [tx1 EXCEPT !.secondary =
                    IF index # None THEN ws0[index[1] + 1].id ELSE 0]
    IN [r0 EXCEPT !.transaction = Some(tx2),
                  !.windows = Transaction_update_dimensions(ws2, tx2)]

\* Mutation: a dead primary stays staged.
refresh_visible_secondary_only(r, t) ==
    LET r0 == start_transaction(r, t)
        tx0 == r0.transaction[1]
        ws == r0.windows
        Gone(weak) == ~Upgrades(ws, weak) \/ ~Deref(ws, weak).alive
        tx1 == IF Gone(tx0.secondary) THEN [tx0 EXCEPT !.secondary = 0] ELSE tx0
    IN [r0 EXCEPT !.transaction = Some(tx1),
                  !.windows = Transaction_update_dimensions(ws, tx1)]

\* Windows::refresh_visible
refresh_visible(r, t) ==
    LET r0 == start_transaction(r, t)
        tx0 == r0.transaction[1]
        ws == r0.windows
        Gone(weak) == ~Upgrades(ws, weak) \/ ~Deref(ws, weak).alive
        \* Remove dead primary/secondary windows.
        tx1 == IF Gone(tx0.secondary) THEN [tx0 EXCEPT !.secondary = 0] ELSE tx0
        tx2 == IF Gone(tx1.primary)
               THEN [tx1 EXCEPT !.primary = tx1.secondary, !.secondary = 0]
               ELSE tx1
    IN [r0 EXCEPT !.transaction = Some(tx2),
                  !.windows = Transaction_update_dimensions(ws, tx2)]

\* Mutation: the view is switched at once instead of being staged.
toggle_view_live(r, t) ==
    [r EXCEPT !.view = IF r.view.kind = "Workspace" THEN DefaultOverview ELSE Workspace]

\* Mutation: the target is the opposite of the staged view when one is staged.
toggle_view_staged(r, t) ==
    LET current == IF r.transaction # None /\ r.transaction[1].view # None
                   THEN r.transaction[1].view[1] ELSE r.view
        new_view == IF current.kind = "Workspace"
                    THEN Some(DefaultOverview) ELSE Some(Workspace)
        r0 == start_transaction(r, t)
    IN [r0 EXCEPT !.transaction = Some([r0.transaction[1] EXCEPT !.view = new_view])]

\* Windows::toggle_view
toggle_view(r, t) ==
    LET new_view == IF r.view.kind = "Workspace"
                    THEN Some(DefaultOverview) ELSE Some(Workspace)
        r0 == start_transaction(r, t)
    IN [r0 EXCEPT !.transaction = Some([r0.transaction[1] EXCEPT !.view = new_view])]

\* Mutation: add does not clear the secondary.
add_keeps_secondary(r, t, id) ==
    LET r1 == [r EXCEPT !.windows = Append(r.windows, Window_new(id))]
    IN set_primary(r1, t, Some(Len(r1.windows) - 1))

\* Windows::add
add(r, t, id) ==
    LET r1 == [r EXCEPT !.windows = Append(r.windows, Window_new(id))]
        r2 == set_primary(r1, t, Some(Len(r1.windows) - 1))
    IN set_secondary(r2, t, None)

(***************************************************************************)
(* Windows::update_transaction.                                            *)
(***************************************************************************)
\* Mutation: a window with a pending sub-transaction is never ready.
finished_idle(ws) == \A i \in 1..Len(ws) : ws[i].transaction = None

\* Check if all participants are ready.
finished(ws) ==
    \A i \in 1..Len(ws) :
        ws[i].transaction = None
            \/ ws[i].acked_size = RectSize(ws[i].transaction[1].rectangle)

\* Mutation: the deadline is reached at 200 ms already.
StillPending_early(r, t) ==
    /\ t - r.transaction[1].start < MAX_TRANSACTION_DURATION
    /\ ~finished(r.windows)

\* The transaction is still pending: update_transaction returns early.
StillPending(r, t) ==
    /\ t - r.transaction[1].start <= MAX_TRANSACTION_DURATION
    /\ ~finished(r.windows)

\* One pass of the loop body up to the swaps, on the window at index i:
\* apply_transaction on self.windows[i].
ApplyAt(ws, i) == [ws EXCEPT ![i + 1] = apply_transaction(ws[i + 1])]

\* The while loop of the commit; n is the loop variable i at the loop head,
\* so the body works on index n - 1 and a swap re-enters with n.
RECURSIVE commit_loop(_, _, _, _)
commit_loop(ws, n, tx, secondary_index) ==
    IF ~(n > 0) THEN ws
    \* Remove dead windows.
    ELSE IF ~ws[n].alive
    THEN commit_loop(Remove(ws, n - 1), n - 1, tx, secondary_index)
    \* Ensure primary/secondary are always first/second window.
    ELSE IF n - 1 > 0 /\ tx.primary = ws[n].id
    THEN commit_loop(Swap(ApplyAt(ws, n - 1), 0, n - 1), n, tx, secondary_index)
    ELSE IF n - 1 > secondary_index /\ tx.secondary = ws[n].id
    THEN commit_loop(Swap(ApplyAt(ws, n - 1), secondary_index, n - 1), n, tx, secondary_index)
    ELSE commit_loop(ApplyAt(ws, n - 1), n - 1, tx, secondary_index)

\* Mutation: the secondary is swapped at its own index too.
commit_step_reswapping(ws, n, tx, secondary_index) ==
    LET i == n - 1 IN
    IF ~ws[i + 1].alive THEN [ ws |-> Remove(ws, i), n |-> i ]
    ELSE LET ws1 == ApplyAt(ws, i) IN
         IF i > 0 /\ tx.primary = ws1[i + 1].id
         THEN [ ws |-> Swap(ws1, 0, i), n |-> i + 1 ]
         ELSE IF i >= secondary_index /\ tx.secondary = ws1[i + 1].id
         THEN [ ws |-> Swap(ws1, secondary_index, i), n |-> i + 1 ]
         ELSE [ ws |-> ws1, n |-> i ]

\* One pass of the body of the commit's while loop, entered with the loop
\* variable i equal to n > 0: the list and the loop variable at the next
\* evaluation of the loop condition.
commit_step(ws, n, tx, secondary_index) ==
    LET i == n - 1 IN
    \* Remove dead windows.
    IF ~ws[i + 1].alive THEN [ ws |-> Remove(ws, i), n |-> i ]
    \* Apply transaction changes.
    ELSE LET ws1 == ApplyAt(ws, i) IN
         \* Ensure primary/secondary are always first/second window.
         IF i > 0 /\ tx.primary = ws1[i + 1].id
         THEN [ ws |-> Swap(ws1, 0, i), n |-> i + 1 ]
         ELSE IF i > secondary_index /\ tx.secondary = ws1[i + 1].id
         THEN [ ws |-> Swap(ws1, secondary_index, i), n |-> i + 1 ]
         ELSE [ ws |-> ws1, n |-> i ]

\* Mutation: the commit purges and applies but does not reorder.
commit_unordered(r) ==
    LET tx == r.transaction[1]
    IN [r EXCEPT !.windows = commit_loop(r.windows, Len(r.windows),
                                 [tx EXCEPT !.primary = 0, !.secondary = 0], 1),
                 !.transaction = None,
                 !.view = IF tx.view # None THEN tx.view[1] ELSE r.view,
                 !.secondary = tx.secondary,
                 !.primary = tx.primary]

\* The commit step: the part of update_transaction after the pending check.
commit(r) ==
    LET tx == r.transaction[1]
        secondary_index == Max(strong_count(r.windows, r.primary), 1)
    IN [r EXCEPT !.windows = commit_loop(r.windows, Len(r.windows), tx, secondary_index),
                 \* Apply window management changes.
                 !.transaction = None,
                 !.view = IF tx.view # None THEN tx.view[1] ELSE r.view,
                 !.secondary = tx.secondary,
                 !.primary = tx.primary]

\* Whether update_transaction at instant t reaches the commit step.
Commits(r, t) == r.transaction # None /\ ~StillPending(r, t)

\* Mutation: the transaction is dropped instead of committed.
update_transaction_dropping(r, t) ==
    IF Commits(r, t) THEN [r EXCEPT !.transaction = None] ELSE r

update_transaction(r, t) == IF Commits(r, t) THEN commit(r) ELSE r

\* Mutation: the draw clamps the registry's view in place.
draw_clamping_live(r, t) ==
    LET r1 == update_transaction(r, t) IN
    IF r1.view.kind # "Overview" THEN r1
    ELSE IF r1.view.floating_position # None
    THEN IF focused_index(r1.view, Len(r1.windows)) >= Len(r1.windows)
         THEN Panic(r1) ELSE r1
    ELSE LET S == OVERVIEW_HORIZONTAL_SENSITIVITY
             min_offset == (-Len(r1.windows) + 1) * S
             x0 == IF r1.view.x_offset > 3 * S THEN 3 * S
                   ELSE IF r1.view.x_offset < min_offset - 3 * S
                   THEN min_offset - 3 * S ELSE r1.view.x_offset
         IN [r1 EXCEPT !.view.x_offset = x0]

\* Windows::draw: the pre-draw commit check, then the view is rendered.
\* draw_drag_and_drop indexes the window list at focused_index.
draw(r, t) ==
    LET r1 == update_transaction(r, t) IN
    IF /\ r1.view.kind = "Overview"
       /\ r1.view.floating_position # None
       /\ focused_index(r1.view, Len(r1.windows)) >= Len(r1.windows)
    THEN Panic(r1)
    ELSE r1

(***************************************************************************)
(* Input handlers. overflow_checks tells whether the build panics on       *)
(* integer overflow.                                                       *)
(***************************************************************************)
\* Mutation: refresh drops the dead windows from the list at once.
refresh_purging(r, t) ==
    LET r1 == IF \E i \in 1..Len(r.windows) : ~r.windows[i].alive
              THEN refresh_visible(r, t) ELSE r
    IN [r1 EXCEPT !.windows = SelectSeq(r1.windows, LAMBDA w : w.alive)]

\* Windows::refresh
refresh(r, t) ==
    LET r1 == IF \E i \in 1..Len(r.windows) : ~r.windows[i].alive
              THEN refresh_visible(r, t) ELSE r
    IN \* Open as secondary on long touch in overview.
       IF /\ r1.view.kind = "Overview"
          /\ r1.view.hold_start # None
          /\ t - r1.view.hold_start[1] >= HOLD_DURATION
       THEN [r1 EXCEPT !.view.floating_position = Some(Point(0, 0)),
                       !.view.hold_start = None]
       ELSE r1

\* Windows::on_touch_start
on_touch_start(r, t, point, overflow_checks) ==
    IF r.view.kind # "Overview" THEN r
    ELSE IF FocusedIndexPanics(Len(r.windows), overflow_checks) THEN Panic(r)
    ELSE
    LET window_bounds == focused_bounds(r.view, OutputSize, Len(r.windows))
    IN [r EXCEPT !.view.hold_start =
                     IF Contains(window_bounds, point) THEN Some(t) ELSE @,
                 !.view.last_drag_point = point]

\* Mutation: the secondary is cleared whatever the primary.
on_tap_clearing(r, t, point, overflow_checks) ==
    IF r.view.kind # "Overview" THEN r
    ELSE IF FocusedIndexPanics(Len(r.windows), overflow_checks) THEN Panic(r)
    ELSE
    LET r0 == [r EXCEPT !.view.hold_start = None]
        window_bounds == focused_bounds(r0.view, OutputSize, Len(r0.windows))
    IN IF ~Contains(window_bounds, point) THEN r0
       ELSE
       LET r1 == set_primary(r0, t, Some(focused_index(r0.view, Len(r0.windows))))
       IN IF r1.panicked THEN r1 ELSE toggle_view(set_secondary(r1, t, None), t)

\* Mutation: every tap in the overview counts as a tap on the focused window.
on_tap_anywhere(r, t, point, overflow_checks) ==
    IF r.view.kind # "Overview" THEN r
    ELSE IF Len(r.windows) = 0 THEN Panic(r)
    ELSE
    LET r0 == [r EXCEPT !.view.hold_start = None]
        r1 == set_primary(r0, t, Some(focused_index(r0.view, Len(r0.windows))))
        r2 == IF strong_count(r1.windows, r1.primary) > 0
              THEN set_secondary(r1, t, None) ELSE r1
    IN toggle_view(r2, t)

\* Windows::on_tap
on_tap(r, t, point, overflow_checks) ==
    IF r.view.kind # "Overview" THEN r
    ELSE IF FocusedIndexPanics(Len(r.windows), overflow_checks) THEN Panic(r)
    ELSE
    LET r0 == [r EXCEPT !.view.hold_start = None]
        window_bounds == focused_bounds(r0.view, OutputSize, Len(r0.windows))
    IN IF ~Contains(window_bounds, point) THEN r0
       ELSE
       LET index == focused_index(r0.view, Len(r0.windows))
           \* Clear secondary unless *only* primary is empty.
           r1 == set_primary(r0, t, Some(index))
           r2 == IF strong_count(r1.windows, r1.primary) > 0
                 THEN set_secondary(r1, t, None) ELSE r1
       IN IF r1.panicked THEN r1 ELSE toggle_view(r2, t)

\* Mutation: every drag move latches the axis anew.
on_drag_relatching(r, t, point) ==
    IF r.view.kind # "Overview" THEN r
    ELSE
    LET delta == Point(point.x - r.view.last_drag_point.x,
                       point.y - r.view.last_drag_point.y)
        r0 == [r EXCEPT !.view.last_drag_point = point]
    IN IF r0.view.floating_position # None
       THEN [r0 EXCEPT !.view.floating_position =
                 Some(Point(@[1].x + delta.x, @[1].y + delta.y))]
       ELSE IF Abs(delta.x) >= Abs(delta.y)
       THEN [r0 EXCEPT !.view.drag_direction = Some("Horizontal"),
                       !.view.x_offset = @ + delta.x,
                       !.view.x_error = F64Round(r0.view.x_offset + delta.x,
                                                 @ + F64Round(delta.x, 0)),
                       !.view.last_overdrag_step = None,
                       !.view.hold_start = None,
                       !.view.y_offset = 0]
       ELSE [r0 EXCEPT !.view.drag_direction = Some("Vertical"),
                       !.view.last_overdrag_step = None,
                       !.view.hold_start = None]

\* Mutation: vertical moves are handled during the cooldown too.
on_drag_reclosing(r, t, point) ==
    IF r.view.kind # "Overview" THEN r
    ELSE
    LET delta == Point(point.x - r.view.last_drag_point.x,
                       point.y - r.view.last_drag_point.y)
        r0 == [r EXCEPT !.view.last_drag_point = point]
    IN IF r0.view.floating_position # None
       THEN [r0 EXCEPT !.view.floating_position =
                 Some(Point(@[1].x + delta.x, @[1].y + delta.y))]
       ELSE
       LET direction == IF r0.view.drag_direction # None THEN r0.view.drag_direction[1]
                        ELSE IF Abs(delta.x) >= Abs(delta.y) THEN "Horizontal"
                        ELSE "Vertical"
           r1 == [r0 EXCEPT !.view.drag_direction = Some(direction)]
       IN IF direction = "Horizontal"
          THEN [r1 EXCEPT !.view.x_offset = @ + delta.x,
                          !.view.x_error = F64Round(r1.view.x_offset + delta.x,
                                                    @ + F64Round(delta.x, 0)),
                          !.view.last_overdrag_step = None,
                          !.view.hold_start = None,
                          !.view.y_offset = 0]
          ELSE
            LET r2 == [r1 EXCEPT !.view.last_overdrag_step = None,
                                 !.view.hold_start = None,
                                 !.view.y_offset = @ + delta.y]
            IN IF /\ Abs(r2.view.y_offset) * OVERVIEW_CLOSE_DISTANCE[2]
                        >= OutputSize.h * OVERVIEW_CLOSE_DISTANCE[1]
                  /\ Len(r2.windows) # 0
               THEN
                 LET index == focused_index(r2.view, Len(r2.windows))
                     r3 == [r2 EXCEPT !.windows = Remove(@, index),
                                      !.view.last_overdrag_step = Some(t),
                                      !.view.close_release_pending = TRUE,
                                      !.view.y_offset = 0]
                 IN refresh_visible(r3, t)
               ELSE r2

\* Windows::on_drag
on_drag(r, t, point) ==
    IF r.view.kind # "Overview" THEN r
    ELSE
    LET delta == Point(point.x - r.view.last_drag_point.x,
                       point.y - r.view.last_drag_point.y)
        r0 == [r EXCEPT !.view.last_drag_point = point]
    IN IF r0.view.floating_position # None
       THEN [r0 EXCEPT !.view.floating_position =
                 Some(Point(@[1].x + delta.x, @[1].y + delta.y))]
       ELSE
       LET direction == IF r0.view.drag_direction # None THEN r0.view.drag_direction[1]
                        ELSE IF Abs(delta.x) >= Abs(delta.y) THEN "Horizontal"
                        ELSE "Vertical"
           r1 == [r0 EXCEPT !.view.drag_direction = Some(direction)]
       IN IF direction = "Horizontal"
          THEN [r1 EXCEPT !.view.x_offset = @ + delta.x,
                          !.view.x_error = F64Round(r1.view.x_offset + delta.x,
                                                    @ + F64Round(delta.x, 0)),
                          !.view.last_overdrag_step = None,
                          !.view.hold_start = None,
                          !.view.y_offset = 0]
          ELSE IF ~r1.view.close_release_pending
          THEN
            LET r2 == [r1 EXCEPT !.view.last_overdrag_step = None,
                                 !.view.hold_start = None,
                                 !.view.y_offset = @ + delta.y]
            IN \* Close window once offset surpassed the threshold.
               IF /\ Abs(r2.view.y_offset) * OVERVIEW_CLOSE_DISTANCE[2]
                        >= OutputSize.h * OVERVIEW_CLOSE_DISTANCE[1]
                  /\ Len(r2.windows) # 0
               THEN
                 LET index == focused_index(r2.view, Len(r2.windows))
                     r3 == [r2 EXCEPT !.windows = Remove(@, index),
                                      !.view.last_overdrag_step = Some(t),
                                      !.view.close_release_pending = TRUE,
                                      !.view.y_offset = 0]
                 IN refresh_visible(r3, t)
               ELSE r2
          ELSE r1

\* Mutation: the marks at 1/3 and 2/3 belong to the thirds on the other side.
on_drag_release_shifted(r, t, overflow_checks) ==
    IF r.view.kind # "Overview" THEN r
    ELSE
    LET ov == r.view
        top == 3 * ov.last_drag_point.y <= OutputSize.h
        bottom == 3 * ov.last_drag_point.y > 2 * OutputSize.h
        index == focused_index(ov, Len(r.windows))
    IN IF ov.floating_position # None /\ (top \/ bottom)
       THEN IF FocusedIndexPanics(Len(r.windows), overflow_checks) THEN Panic(r)
            ELSE
            LET r1 == IF top THEN set_primary(r, t, Some(index))
                      ELSE set_secondary(r, t, Some(index))
            IN IF r1.panicked THEN r1 ELSE toggle_view(r1, t)
       ELSE [r EXCEPT !.view.last_overdrag_step = Some(t),
                      !.view.close_release_pending = FALSE,
                      !.view.floating_position = None]

\* Windows::on_drag_release
on_drag_release(r, t, overflow_checks) ==
    IF r.view.kind # "Overview" THEN r
    ELSE
    LET ov == r.view
        top == 3 * ov.last_drag_point.y < OutputSize.h
        bottom == 3 * ov.last_drag_point.y >= 2 * OutputSize.h
        index == focused_index(ov, Len(r.windows))
    IN IF ov.floating_position # None /\ (top \/ bottom)
       THEN IF FocusedIndexPanics(Len(r.windows), overflow_checks) THEN Panic(r)
            ELSE
            LET r1 == IF top THEN set_primary(r, t, Some(index))
                      ELSE set_secondary(r, t, Some(index))
            IN IF r1.panicked THEN r1 ELSE toggle_view(r1, t)
       ELSE [r EXCEPT !.view.last_overdrag_step = Some(t),
                      !.view.close_release_pending = FALSE,
                      !.view.floating_position = None]

(***************************************************************************)
(* Surface damage (drawing.rs). A rectangle is a record as built by Rect;  *)
(* the ring of physical damage is a sequence whose first element is slot 0.*)
(***************************************************************************)
MAX_DAMAGE_AGE == 2

\* [v; n]
RECURSIVE Repeat(_, _)
Repeat(v, n) == IF n = 0 THEN <<>> ELSE Append(Repeat(v, n - 1), v)

\* Damage::default
Damage_default == [ physical |-> Repeat(DefaultRect, MAX_DAMAGE_AGE), buffer |-> <<>> ]

\* slice::rotate_right(1)
rotate_right(s) == IF Len(s) = 0 THEN s ELSE <<s[Len(s)]>> \o SubSeq(s, 1, Len(s) - 1)

\* Mutation: slot 0 is reset in place, the ring is not rotated.
Damage_clear_in_place(d) ==
    [ physical |-> [d.physical EXCEPT ![1] = DefaultRect], buffer |-> <<>> ]

\* Mutation: the ring is rotated, slot 0 is not reset.
Damage_clear_rotating(d) ==
    [ physical |-> rotate_right(d.physical), buffer |-> <<>> ]

\* Damage::clear
Damage_clear(d) ==
    [ physical |-> [rotate_right(d.physical) EXCEPT ![1] = DefaultRect],
      buffer |-> <<>> ]

\* Rectangle::merge: the bounding box of both rectangles
Merge(a, b) ==
    LET x == Min(a.x, b.x)
        y == Min(a.y, b.y)
    IN Rect(x, y, Max(a.x + a.w, b.x + b.w) - x, Max(a.y + a.h, b.y + b.h) - y)

\* Rectangle::to_physical with an integer output scale
to_physical(r, output_scale) ==
    Rect(r.x * output_scale, r.y * output_scale, r.w * output_scale, r.h * output_scale)

\* Rectangle<Logical>::to_buffer(scale, transform, area): the rectangle is
\* turned inside the area, then scaled.
to_buffer(r, scale, transform, area) ==
    LET turned == IF transform = "_90"
                  THEN Rect(area.h - r.y - r.h, r.x, r.h, r.w)
                  ELSE r
    IN Rect(turned.x * scale, turned.y * scale, turned.w * scale, turned.h * scale)

\* Size<Logical>::to_buffer(scale, transform): the size is scaled, a
\* quarter turn swaps the sides.
Size_to_buffer(size, scale, transform) ==
    IF transform = "_90"
    THEN [ w |-> size.h * scale, h |-> size.w * scale ]
    ELSE [ w |-> size.w * scale, h |-> size.h * scale ]

\* i32 division: the quotient is truncated toward zero.
downscale(n, scale) == IF n >= 0 THEN n \div scale ELSE -((-n) \div scale)

\* Rectangle<Buffer>::to_logical(scale, transform, area): the rectangle is
\* turned back inside the buffer's area, then divided by the scale.
Rectangle_to_logical(r, scale, transform, area) ==
    LET turned == IF transform = "_90"
                  THEN Rect(r.y, area.w - r.x - r.w, r.h, r.w)
                  ELSE r
    IN Rect(downscale(turned.x, scale), downscale(turned.y, scale),
            downscale(turned.w, scale), downscale(turned.h, scale))

\* SurfaceDamage: a rectangle in surface or in buffer coordinates.
SurfaceDamage_Surface(rect) == [ kind |-> "Surface", rect |-> rect ]

SurfaceDamage_Buffer(rect) == [ kind |-> "Buffer", rect |-> rect ]

\* The match of add_damage: the incoming rectangle in buffer coordinates and
\* in physical coordinates. Damage in buffer coordinates is kept as it is
\* and its physical image goes through the logical rectangle; damage in
\* surface coordinates is converted both ways.
DamageImages(incoming, output_scale, scale, transform, size) ==
    IF incoming.kind = "Buffer"
    THEN LET buffer_size == Size_to_buffer(size, scale, transform)
             logical == Rectangle_to_logical(incoming.rect, scale, transform, buffer_size)
         IN [ buffer |-> incoming.rect, physical |-> to_physical(logical, output_scale) ]
    ELSE [ buffer |-> to_buffer(incoming.rect, scale, transform, size),
           physical |-> to_physical(incoming.rect, output_scale) ]

\* Mutation: slot 0 is replaced by the incoming damage instead of merged.
add_damage_replacing(d, output_scale, incoming, scale, transform, size) ==
    LET images == DamageImages(incoming, output_scale, scale, transform, size)
    IN [ physical |-> [d.physical EXCEPT ![1] = images.physical],
         buffer |-> Append(d.buffer, images.buffer) ]

\* SurfaceBuffer::add_damage with one SurfaceDamage on a surface of the
\* given buffer scale, transform and size: the rectangle is merged into
\* slot 0 in physical coordinates and pushed in buffer coordinates.
add_damage(d, output_scale, incoming, scale, transform, size) ==
    LET images == DamageImages(incoming, output_scale, scale, transform, size)
    IN [ physical |-> [d.physical EXCEPT ![1] = Merge(@, images.physical)],
         buffer |-> Append(d.buffer, images.buffer) ]

(***************************************************************************)
(* Surface buffers and their import (drawing.rs, window.rs). A buffer is a *)
(* record of its identity, its dimensions in buffer coordinates and        *)
(* whether it is shared memory; a texture is named by the buffer it was    *)
(* imported from. The window's surface tree is a single surface.           *)
(***************************************************************************)
\* Transform.invert().transform_size(size): a quarter turn swaps the sides
transform_size(size, transform) ==
    IF transform = "_90" THEN [ w |-> size.h, h |-> size.w ] ELSE size

\* Size<i32, Buffer>::to_logical(scale, transform)
to_logical(size, scale, transform) ==
    LET turned == transform_size(size, transform)
    IN [ w |-> turned.w \div scale, h |-> turned.h \div scale ]

\* SurfaceBuffer::default
SurfaceBuffer_default ==
    [ texture |-> None, size |-> DefaultSize, buffer |-> None,
      transform |-> "Normal", damage |-> Damage_default, scale |-> 1 ]

\* BufferAssignment
NewBuffer(buffer) == [ kind |-> "NewBuffer", buffer |-> buffer ]

Removed == [ kind |-> "Removed" ]

\* Mutation: the cached texture survives a new buffer.
update_buffer_keeping_texture(sb, attributes, assignment) ==
    IF assignment.kind = "NewBuffer"
    THEN [sb EXCEPT !.size = to_logical(assignment.buffer.size, sb.scale, sb.transform),
                    !.transform = attributes.buffer_transform,
                    !.scale = attributes.buffer_scale,
                    !.buffer = Some(assignment.buffer)]
    ELSE SurfaceBuffer_default

\* SurfaceBuffer::update_buffer: the size is computed before the new
\* transform and scale are stored, that is with the previous ones.
update_buffer(sb, attributes, assignment) ==
    IF assignment.kind = "NewBuffer"
    THEN [sb EXCEPT !.size = to_logical(assignment.buffer.size, sb.scale, sb.transform),
                    !.transform = attributes.buffer_transform,
                    !.scale = attributes.buffer_scale,
                    !.buffer = Some(assignment.buffer),
                    !.texture = None]
    ELSE SurfaceBuffer_default

\* TextureCache::default
TextureCache_default == [ geometry |-> DefaultSize, textures |-> <<>> ]

\* Texture::new(texture, size, location, scale) as cached by the window
CachedTexture(texture, sb) == [ texture |-> texture, size |-> sb.size, scale |-> sb.scale ]

\* Window::geometry: the window geometry the client set, the default
\* rectangle without one or without a surface.
Window_geometry(w) ==
    IF w.alive /\ w.geometry # None THEN w.geometry[1] ELSE DefaultRect

\* Window::import_buffers; import_ok is the renderer's answer to
\* import_buffer. The texture cache is reset to the size of the window
\* geometry.
import_buffers(w, import_ok) ==
    IF ~w.alive THEN w
    ELSE
    LET sb == w.surface
        geometry == Window_geometry(w)
        w1 == [w EXCEPT !.texture_cache = [ geometry |-> RectSize(geometry),
                                            textures |-> <<>> ],
                        !.buffers_pending = FALSE]
    IN \* Skip surface if buffer was already imported.
       IF sb.texture # None
       THEN [w1 EXCEPT !.texture_cache.textures = Append(@, CachedTexture(sb.texture[1], sb))]
       ELSE IF sb.buffer = None THEN w1
       ELSE IF import_ok
       THEN LET texture == [ buffer |-> sb.buffer[1].id ]
            IN [w1 EXCEPT !.surface.buffer = IF sb.buffer[1].shm THEN None ELSE @,
                          !.surface.texture = Some(texture),
                          !.texture_cache.textures = Append(@, CachedTexture(texture, sb))]
       ELSE [w1 EXCEPT !.surface.buffer = None]

\* Mutation: buffers are imported during a sub-transaction too.
Window_draw_unfrozen(w, import_ok) ==
    IF w.buffers_pending THEN import_buffers(w, import_ok) ELSE w

\* Window::draw, as far as it changes the window
Window_draw(w, import_ok) ==
    \* Skip updating windows during transactions.
    IF w.transaction = None /\ w.buffers_pending
    THEN import_buffers(w, import_ok)
    ELSE w

\* A toplevel window after Window::new, its surface without a buffer and
\* without a window geometry (geometry is the one in the surface's cached
\* state); attached counts the buffers its client ever attached.
Toplevel_new ==
    [ window |-> [ id |-> 1, alive |-> TRUE, initial_configure_sent |-> FALSE,
                   acked_size |-> DefaultSize, rectangle |-> DefaultRect,
                   visible |-> FALSE, transaction |-> None, configured |-> None,
                   buffers_pending |-> FALSE, texture_cache |-> TextureCache_default,
                   surface |-> SurfaceBuffer_default, geometry |-> None ],
      attached |-> 0 ]

\* No operation on a component has been recorded.
NoCall == [ fn |-> "", args |-> <<>>, n |-> 0, result |-> None ]

(***************************************************************************)
(* The state machine. The actions take the sets their inputs are drawn     *)
(* from, so that specifications can explore different input ranges.        *)
(***************************************************************************)
Init ==
    /\ now = 0
    /\ created = 0
    /\ inputs = 0
    /\ windows = <<>>
    /\ primary = 0
    /\ secondary = 0
    /\ transaction = None
    /\ view = Workspace
    /\ panicked = FALSE
    /\ damage = Damage_default
    /\ call = NoCall
    /\ toplevel = Toplevel_new

\* The handler returned r, or it panicked.
Apply(r) ==
    IF r.panicked
       THEN /\ panicked' = TRUE
            /\ UNCHANGED <<windows, primary, secondary, transaction, view>>
       ELSE /\ panicked' = FALSE
            /\ windows' = r.windows
            /\ primary' = r.primary
            /\ secondary' = r.secondary
            /\ transaction' = r.transaction
            /\ view' = r.view

\* A client creates a toplevel surface.
Add(max_windows) ==
    /\ ~panicked
    /\ created < max_windows
    /\ created' = created + 1
    /\ Apply(add(Registry, now, created + 1))
    /\ UNCHANGED <<now, inputs, damage, call, toplevel>>

\* The render tick.
Draw ==
    /\ ~panicked
    /\ Apply(draw(Registry, now))
    /\ UNCHANGED <<now, created, inputs, damage, call, toplevel>>

Refresh ==
    /\ ~panicked
    /\ Apply(refresh(Registry, now))
    /\ UNCHANGED <<now, created, inputs, damage, call, toplevel>>

ToggleView ==
    /\ ~panicked
    /\ Apply(toggle_view(Registry, now))
    /\ UNCHANGED <<now, created, inputs, damage, call, toplevel>>

\* Windows::start_transaction called on its own (it is public).
StartTransaction ==
    /\ ~panicked
    /\ Apply(start_transaction(Registry, now))
    /\ UNCHANGED <<now, created, inputs, damage, call, toplevel>>

\* Transaction::update_dimensions called on the transaction that
\* Windows::start_transaction returns (both are public): the staged primary
\* and secondary windows are given their rectangles.
TransactionUpdateDimensions ==
    /\ ~panicked
    /\ LET r == start_transaction(Registry, now)
       IN Apply([r EXCEPT !.windows =
                     Transaction_update_dimensions(r.windows, r.transaction[1])])
    /\ UNCHANGED <<now, created, inputs, damage, call, toplevel>>

OnTouchStart(points, max_inputs) ==
    /\ ~panicked
    /\ inputs < max_inputs
    /\ inputs' = inputs + 1
    /\ \E point \in points, overflow_checks \in BOOLEAN :
           Apply(on_touch_start(Registry, now, point, overflow_checks))
    /\ UNCHANGED <<now, created, damage, call, toplevel>>

OnTap(points, max_inputs) ==
    /\ ~panicked
    /\ inputs < max_inputs
    /\ inputs' = inputs + 1
    /\ \E point \in points, overflow_checks \in BOOLEAN :
           Apply(on_tap(Registry, now, point, overflow_checks))
    /\ UNCHANGED <<now, created, damage, call, toplevel>>

OnDrag(points, max_inputs) ==
    /\ ~panicked
    /\ inputs < max_inputs
    /\ inputs' = inputs + 1
    /\ \E point \in points : Apply(on_drag(Registry, now, point))
    /\ UNCHANGED <<now, created, damage, call, toplevel>>

OnDragRelease(max_inputs) ==
    /\ ~panicked
    /\ inputs < max_inputs
    /\ inputs' = inputs + 1
    /\ \E overflow_checks \in BOOLEAN :
           Apply(on_drag_release(Registry, now, overflow_checks))
    /\ UNCHANGED <<now, created, damage, call, toplevel>>

\* The client acks the last configure it was sent.
ClientAck ==
    /\ ~panicked
    /\ \E i \in 1..Len(windows) :
           /\ windows[i].alive
           /\ windows[i].configured # None
           /\ windows[i].acked_size # windows[i].configured[1]
           /\ windows' = [windows EXCEPT ![i].acked_size = windows[i].configured[1]]
    /\ UNCHANGED <<now, created, inputs, primary, secondary, transaction, view, panicked, damage, call, toplevel>>

\* The client's first commit: the initial configure is sent.
InitialConfigure ==
    /\ ~panicked
    /\ \E i \in 1..Len(windows) :
           /\ windows[i].alive
           /\ ~windows[i].initial_configure_sent
           /\ windows' = [windows EXCEPT ![i] =
                            reconfigure([@ EXCEPT !.initial_configure_sent = TRUE])]
    /\ UNCHANGED <<now, created, inputs, primary, secondary, transaction, view, panicked, damage, call, toplevel>>

\* The client disconnects or destroys its surface.
SurfaceDies(max_dead) ==
    /\ ~panicked
    /\ Cardinality({ j \in 1..Len(windows) : ~windows[j].alive }) < max_dead
    /\ \E i \in 1..Len(windows) :
           /\ windows[i].alive
           /\ windows' = [windows EXCEPT ![i].alive = FALSE]
    /\ UNCHANGED <<now, created, inputs, primary, secondary, transaction, view, panicked, damage, call, toplevel>>

\* Time passes until the next observed instant.
Tick(instants) ==
    /\ ~panicked
    /\ \E t \in instants : t > now /\ now' = t
    /\ UNCHANGED <<created, inputs, windows, primary, secondary, transaction, view, panicked, damage, call, toplevel>>

(***************************************************************************)
(* Spec: the transaction protocol. Up to MaxWindows clients, taps on the   *)
(* focused window, and instants that straddle the force-commit deadline.   *)
(***************************************************************************)
Instants == { 0, MAX_TRANSACTION_DURATION, MAX_TRANSACTION_DURATION + 1 }

\* A touch point inside the focused window's bounds.
TapPoints == { Point(200, 300) }

Next ==
    \/ Add(MaxWindows)
    \/ Draw
    \/ Refresh
    \/ ToggleView
    \/ OnTap(TapPoints, MaxTaps)
    \/ ClientAck
    \/ InitialConfigure
    \/ SurfaceDies(MaxWindows)
    \/ Tick(Instants)

Spec == Init /\ [][Next]_vars

(***************************************************************************)
(* SpecOverview: the overview gestures. Two clients, touch points one page *)
(* apart inside the focused bounds (bottom third and top third), and       *)
(* instants that reach the hold duration.                                  *)
(***************************************************************************)
HoldInstants == { 0, HOLD_DURATION }

TouchPoints == { Point(325, 500), Point(75, 500), Point(75, 100) }

NextOverview ==
    \/ Add(MaxOverviewWindows)
    \/ Draw
    \/ Refresh
    \/ ToggleView
    \/ StartTransaction
    \/ TransactionUpdateDimensions
    \/ OnTouchStart(TouchPoints, MaxInputs)
    \/ OnTap(TouchPoints, MaxInputs)
    \/ OnDrag(TouchPoints, MaxInputs)
    \/ OnDragRelease(MaxInputs)
    \/ ClientAck
    \/ InitialConfigure
    \/ SurfaceDies(MaxDead)
    \/ Tick(HoldInstants)

SpecOverview == Init /\ [][NextOverview]_vars

(***************************************************************************)
(* SpecLive: the transaction protocol with the render tick and the clock   *)
(* scheduled fairly. The clock is observed up to LastInstant; windows are  *)
(* added, reaped, tapped and the view toggled at every instant.            *)
(***************************************************************************)
LastInstant == 2 * MAX_TRANSACTION_DURATION + 2

LiveInstants ==
    { 0, MAX_TRANSACTION_DURATION, MAX_TRANSACTION_DURATION + 1, LastInstant }

NextLive ==
    \/ Add(MaxLiveWindows)
    \/ Refresh
    \/ ToggleView
    \/ OnTap(TapPoints, MaxTaps)
    \/ Draw
    \/ ClientAck
    \/ InitialConfigure
    \/ SurfaceDies(MaxLiveWindows)
    \/ Tick(LiveInstants)

SpecLive ==
    /\ Init
    /\ [][NextLive]_vars
    /\ WF_vars(Draw)
    /\ WF_vars(Tick(LiveInstants))

(***************************************************************************)
(* The commit step and what it leaves behind.                              *)
(***************************************************************************)
\* A draw whose update_transaction reaches the commit step.
CommitStep == Draw /\ Commits(Registry, now) /\ ~panicked'

\* The full-output rectangle of a lone primary.
FullRect == primary_rectangle(FALSE)

\* No window has a pending sub-transaction whose size differs from its acked
\* size.
NoUnackedSize ==
    \A i \in 1..Len(windows) :
        \/ windows[i].transaction = None
        \/ windows[i].acked_size.w = windows[i].transaction[1].rectangle.w
               /\ windows[i].acked_size.h = windows[i].transaction[1].rectangle.h

\* C3: when no window has a pending sub-transaction whose size differs from
\* its acked size, the next draw commits the open transaction, whatever time
\* has elapsed since its start.
C3_FinishedCommits ==
    (~panicked /\ transaction # None /\ NoUnackedSize) =>
        LET after == draw(Registry, now) IN
        /\ after.transaction = None
        /\ after.primary = transaction[1].primary
        /\ after.secondary = transaction[1].secondary

\* C3 witness: a window was committed to its staged rectangle at the instant
\* its transaction was opened, after the client acked the staged size.
C3_Witness ==
    /\ now = 0
    /\ transaction = None
    /\ Len(windows) = 1
    /\ primary = windows[1].id
    /\ windows[1].rectangle = FullRect
    /\ windows[1].acked_size = RectSize(FullRect)

\* C7: a commit applies every staged change at once: every remaining window
\* has the rectangle staged for it (its own if none was staged) and no
\* sub-transaction, no registry transaction is open, the live primary and
\* secondary are the staged ones and the live view is the staged view, or
\* unchanged if none was staged.
C7_CommitAppliesAll ==
    [][CommitStep =>
          /\ \A i \in 1..Len(windows') :
                 /\ Upgrades(windows, windows'[i].id)
                 /\ windows'[i].rectangle = PendingRect(Deref(windows, windows'[i].id))
                 /\ windows'[i].transaction = None
          /\ transaction' = None
          /\ primary' = transaction[1].primary
          /\ secondary' = transaction[1].secondary
          /\ view' = IF transaction[1].view # None THEN transaction[1].view[1] ELSE view
      ]_vars

\* C7 witness: after a forced commit in the overview the primary has its
\* staged rectangle although its client never acked it, and another window
\* is in the list.
C7_Witness ==
    /\ transaction = None
    /\ view.kind = "Overview"
    /\ Len(windows) = 2
    /\ primary = windows[1].id
    /\ windows[1].rectangle = FullRect
    /\ windows[1].acked_size # RectSize(FullRect)
    /\ \A i \in 1..2 : windows[i].transaction = None

\* C8: after a commit the window list holds no window whose surface was dead
\* when the commit ran.
C8_CommitPurgesDead ==
    [][CommitStep =>
          \A j \in 1..Len(windows) :
              ~windows[j].alive => ~Upgrades(windows', windows[j].id)]_vars

\* C8 witness: two of three windows were purged by commits; the one left is
\* alive and committed.
C8_Witness ==
    /\ created = 3
    /\ transaction = None
    /\ Len(windows) = 1
    /\ windows[1].alive
    /\ windows[1].rectangle = FullRect

\* The identities of the windows in list order.
Ids == [i \in 1..Len(windows) |-> windows[i].id]

\* C5, as stated: after every commit the new primary, if it refers to a live
\* window, is at index 0 and the new secondary, if it refers to a live
\* window, is at index 1.
C5_Original ==
    [][CommitStep =>
          /\ Upgrades(windows', primary') => windows'[1].id = primary'
          /\ Upgrades(windows', secondary') =>
                 (Len(windows') >= 2 /\ windows'[2].id = secondary')]_vars

\* C5, amended: after every commit the new primary, if it refers to a live
\* window, is at index 0; the new secondary, if it refers to a live window,
\* is at index 1 when the new primary refers to a live window, and at index
\* 0 or 1 otherwise.
C5_PrimarySecondaryFirst ==
    [][CommitStep =>
          /\ Upgrades(windows', primary') => windows'[1].id = primary'
          /\ Upgrades(windows', secondary') =>
                 IF Upgrades(windows', primary')
                 THEN windows'[2].id = secondary'
                 ELSE \/ windows'[1].id = secondary'
                      \/ (Len(windows') >= 2 /\ windows'[2].id = secondary')]_vars

\* C5 witness: a commit moved the primary to the front and swapped the
\* secondary, the last window added, from index 2 to index 1.
C5_Witness ==
    /\ transaction = None
    /\ Len(windows) = 3
    /\ windows[1].id = primary
    /\ windows[2].id = secondary
    /\ windows[2].id = 3
    /\ windows[3].id = 2

\* Three windows were added, nothing else happened to them, and the implicit
\* transactions have committed.
AddedThree ==
    /\ created = 3
    /\ inputs = 0
    /\ Len(windows) = 3
    /\ \A i \in 1..3 : windows[i].alive
    /\ transaction = None

\* C10, as stated: after three adds have committed the first window added is
\* the primary, the second the secondary, the third neither.
C10_Original == AddedThree => (primary = 1 /\ secondary = 2)

\* C10, amended: after three adds have committed the last window added is the
\* primary, at index 0, and there is no secondary: the first and the second
\* window added are neither.
C10_LastAddedIsPrimary ==
    AddedThree =>
        /\ primary = 3
        /\ ~Upgrades(windows, secondary)
        /\ windows[1].id = 3

\* C10 witness: the three adds have committed, all clients acked.
C10_Witness ==
    /\ AddedThree
    /\ primary = 3
    /\ \A i \in 1..3 : windows[i].transaction = None /\ windows[i].configured # None

\* Time advances past the deadline of the open transaction: the clock has
\* an instant more than 200 ms after the transaction's start.
TimeAdvances ==
    transaction # None /\ transaction[1].start + MAX_TRANSACTION_DURATION < LastInstant

\* C1: while some window has not acked its pending size and at most 200 ms
\* have elapsed since the transaction's start, a draw does not commit; the
\* first draw after more than 200 ms commits; and so every open transaction
\* is eventually committed when draw keeps being called and time advances
\* past its deadline, whatever is added, reaped, tapped or toggled meanwhile
\* (a process ended by a panic draws no more).
C1_DeadlineCommit ==
    /\ []((~panicked /\ transaction # None /\ ~NoUnackedSize
                /\ now - transaction[1].start <= 200)
            => draw(Registry, now) = Registry)
    /\ []((~panicked /\ transaction # None /\ now - transaction[1].start > 200)
            => draw(Registry, now).transaction = None)
    /\ [][(Draw /\ transaction # None /\ ~NoUnackedSize
              /\ now - transaction[1].start <= 200) => UNCHANGED vars]_vars
    /\ (TimeAdvances ~> (transaction = None \/ panicked))

\* C1 witness: a window whose client never received a configure, and so
\* never acked, was committed to its staged rectangle after the deadline.
C1_Witness ==
    /\ now > 200
    /\ transaction = None
    /\ Len(windows) = 1
    /\ ~windows[1].initial_configure_sent
    /\ windows[1].transaction = None
    /\ windows[1].rectangle = FullRect

(***************************************************************************)
(* Staging and live state.                                                 *)
(***************************************************************************)
\* Some window that stays in the list has its committed rectangle changed.
RectangleChanged ==
    \E i \in 1..Len(windows), j \in 1..Len(windows') :
        /\ windows'[j].id = windows[i].id
        /\ windows'[j].rectangle # windows[i].rectangle

\* The live view variant, the live primary or secondary, or a committed
\* rectangle changes.
LiveChanged ==
    \/ view'.kind # view.kind
    \/ primary' # primary
    \/ secondary' # secondary
    \/ RectangleChanged

\* A step of one of the staging operations.
StagingStep ==
    \/ Add(MaxOverviewWindows)
    \/ OnTap(TouchPoints, MaxInputs)
    \/ OnDragRelease(MaxInputs)
    \/ ToggleView
    \/ Refresh

\* C2: staging never mutates live state: no step of add, on_tap,
\* on_drag_release, toggle_view or refresh changes the live view variant, the
\* live primary or secondary, or a window's committed rectangle; these change
\* only in the commit step of update_transaction. Stated on the steps that
\* change live state: each is a commit step and a step of no staging
\* operation.
C2_StagingKeepsLive == [][LiveChanged => (CommitStep /\ ~StagingStep)]_vars

\* C2 witness: in the overview, with windows committed, a tap or a release
\* has staged another primary, the workspace view and a new rectangle, and
\* the live state still has the old ones.
C2_Witness ==
    /\ view.kind = "Overview"
    /\ transaction # None
    /\ transaction[1].view = Some(Workspace)
    /\ Upgrades(windows, primary)
    /\ Upgrades(windows, transaction[1].primary)
    /\ transaction[1].primary # primary
    /\ \E i \in 1..Len(windows) :
           /\ windows[i].transaction # None
           /\ windows[i].rectangle # DefaultRect
           /\ windows[i].transaction[1].rectangle # windows[i].rectangle

\* C4: at most one registry transaction is open; an operation invoked while
\* one is open amends that transaction (its start stays), a staged view
\* survives every later amendment, the staged primary and secondary
\* survive a later toggle_view, and start_transaction on its own returns
\* the open transaction as it is.
C4_OneTransactionAmended ==
    /\ [](Len(transaction) <= 1)
    /\ [][(transaction # None /\ transaction' # None) =>
             /\ transaction'[1].start = transaction[1].start
             /\ transaction[1].view # None => transaction'[1].view = transaction[1].view
         ]_vars
    /\ [][(ToggleView /\ transaction # None) =>
             /\ transaction'[1].primary = transaction[1].primary
             /\ transaction'[1].secondary = transaction[1].secondary]_vars
    /\ [](transaction # None =>
             start_transaction(Registry, now).transaction = transaction)

\* C4 witness: one transaction, opened earlier, holds a view staged by
\* toggle_view in the workspace and a primary and a secondary staged by
\* taps or releases.
C4_Witness ==
    /\ transaction # None
    /\ transaction[1].start < now
    /\ transaction[1].view = Some(Workspace)
    /\ Upgrades(windows, transaction[1].primary)
    /\ Upgrades(windows, transaction[1].secondary)
    /\ transaction[1].primary # primary
    /\ transaction[1].secondary # secondary

\* C6: the live primary and the live secondary, when both refer to existing
\* windows, refer to different windows, and so do the staged primary and
\* secondary of an open transaction.
C6_PrimarySecondaryDistinct ==
    /\ (Upgrades(windows, primary) /\ Upgrades(windows, secondary))
           => primary # secondary
    /\ (transaction # None /\ Upgrades(windows, transaction[1].primary)
           /\ Upgrades(windows, transaction[1].secondary))
           => transaction[1].primary # transaction[1].secondary

\* C6 witness: primary and secondary are two live windows, and a release has
\* staged the live secondary as primary.
C6_Witness ==
    /\ Upgrades(windows, primary)
    /\ Upgrades(windows, secondary)
    /\ primary # secondary
    /\ transaction # None
    /\ transaction[1].primary = secondary

\* C9, as stated: the window list shrinks only in the commit step of
\* update_transaction.
C9_Original == [][Len(windows') < Len(windows) => CommitStep]_vars

\* C9, amended: the window list shrinks only in the commit step of
\* update_transaction, which removes the dead windows, and in on_drag's
\* close, which removes one window at once, also while a transaction is
\* open.
C9_RemovedByCommitOrClose ==
    [][Len(windows') < Len(windows) =>
          \/ CommitStep
          \/ /\ OnDrag(TouchPoints, MaxInputs)
             /\ Len(windows') = Len(windows) - 1
             /\ view'.kind = "Overview"
             /\ view'.close_release_pending]_vars

\* C9 witness: a close drag removed a live window while a transaction was
\* open.
C9_Witness ==
    /\ view.kind = "Overview"
    /\ view.close_release_pending
    /\ created = 2
    /\ Len(windows) = 1
    /\ windows[1].alive
    /\ transaction # None
    /\ transaction[1].view # None

(***************************************************************************)
(* SpecTap: taps and drops in the overview. Two clients that never answer  *)
(* a configure, so that a transaction which resizes a window is committed  *)
(* by the deadline; touch points inside the focused bounds (top and bottom *)
(* third, one page apart) and one outside of them.                         *)
(***************************************************************************)
MaxTapWindows == 2

MaxTapInputs == 5

\* Instants that straddle two deadlines and one hold duration.
TapInstants ==
    { 0,
      MAX_TRANSACTION_DURATION + 1,
      MAX_TRANSACTION_DURATION + 1 + HOLD_DURATION,
      2 * (MAX_TRANSACTION_DURATION + 1) + HOLD_DURATION }

\* A point outside the focused bounds.
OutsidePoint == Point(10, 10)

\* A tap inside the focused bounds and one outside.
TapPoints2 == { Point(325, 500), OutsidePoint }

NextTap ==
    \/ Add(MaxTapWindows)
    \/ Draw
    \/ Refresh
    \/ ToggleView
    \/ OnTouchStart({ Point(325, 500) }, MaxTapInputs)
    \/ OnTap(TapPoints2, MaxTapInputs)
    \/ OnDrag({ Point(75, 500) }, MaxTapInputs)
    \/ OnDragRelease(MaxTapInputs)
    \/ Tick(TapInstants)

SpecTap == Init /\ [][NextTap]_vars

(***************************************************************************)
(* Taps in the overview.                                                   *)
(***************************************************************************)
\* There is a focused window and the point lies inside its bounds.
TapInside(point) ==
    /\ view.kind = "Overview"
    /\ Len(windows) > 0
    /\ Contains(focused_bounds(view, OutputSize, Len(windows)), point)

\* The point misses the focused bounds, or the view is not the overview.
TapMisses(point) ==
    \/ view.kind = "Workspace"
    \/ /\ view.kind = "Overview"
       /\ ~Contains(focused_bounds(view, OutputSize, Len(windows)), point)

\* The window at focused_index.
FocusedWindow == windows[focused_index(view, Len(windows)) + 1]

\* C11: in Overview a tap inside the focused window's bounds stages the
\* window at focused_index as primary and stages the view Workspace, the
\* live view being left as it is, so that the commit of that transaction
\* yields the view Workspace with that window as primary, first in the list
\* when it is alive; a tap that misses the bounds, and any tap in Workspace,
\* leaves the transaction, the window list and the live state untouched.
C11_TapStagesPrimary ==
    \A point \in TapPoints2, overflow_checks \in BOOLEAN :
        LET r == on_tap(Registry, now, point, overflow_checks) IN
        ~panicked =>
        /\ TapInside(point) =>
             /\ ~r.panicked
             /\ r.transaction # None
             /\ r.transaction[1].primary = FocusedWindow.id
             /\ r.transaction[1].view = Some(Workspace)
             /\ r.view.kind = "Overview"
             /\ r.primary = primary
             /\ commit(r).view = Workspace
             /\ commit(r).primary = FocusedWindow.id
             /\ commit(r).transaction = None
             /\ FocusedWindow.alive => commit(r).windows[1].id = FocusedWindow.id
        /\ TapMisses(point) =>
             /\ r.transaction = transaction
             /\ r.windows = windows
             /\ r.primary = primary
             /\ r.secondary = secondary
             /\ r.view.kind = view.kind

\* C11 witness: the second window of the overview was tapped while another
\* window was the live primary; it is staged as primary together with the
\* view Workspace.
C11_Witness ==
    /\ view.kind = "Overview"
    /\ Len(windows) = 2
    /\ windows[1].id = 2
    /\ windows[2].id = 1
    /\ primary = 2
    /\ FocusedWindow.id = 1
    /\ transaction # None
    /\ transaction[1].primary = 1
    /\ transaction[1].view = Some(Workspace)

\* What is staged before an operation: the open transaction, or the live
\* primary and secondary a new transaction starts from.
Staged == IF transaction # None THEN transaction[1] ELSE Transaction_new(Registry, now)

\* The transaction a tap at point leaves behind.
TapResult(point) == on_tap(Registry, now, point, FALSE).transaction[1]

\* C12, as stated: a tap inside the focused bounds clears the staged
\* secondary when the primary was non-empty before the tap and keeps it when
\* the primary was empty.
C12_Original ==
    \A point \in TapPoints2 :
        (~panicked /\ TapInside(point)) =>
            /\ Upgrades(windows, primary) => TapResult(point).secondary = 0
            /\ ~Upgrades(windows, primary) =>
                   TapResult(point).secondary = Staged.secondary

\* C12, amended: a tap inside the focused bounds clears the staged secondary
\* when the live primary was non-empty before the tap. When the live primary
\* was empty, the staged secondary is kept if the tapped window is already
\* the staged primary or if the staged secondary is a window of the list
\* other than the tapped one; otherwise (no staged secondary, or the tapped
\* window is the staged secondary) the tapped window becomes the staged
\* primary and the secondary slot takes the primary staged before the tap.
C12_TapSecondary ==
    \A point \in TapPoints2 :
        (~panicked /\ TapInside(point)) =>
            /\ Upgrades(windows, primary) => TapResult(point).secondary = 0
            /\ ~Upgrades(windows, primary) =>
                   /\ TapResult(point).primary = FocusedWindow.id
                   /\ TapResult(point).secondary =
                        IF \/ Staged.primary = FocusedWindow.id
                           \/ /\ Upgrades(windows, Staged.secondary)
                              /\ Staged.secondary # FocusedWindow.id
                        THEN Staged.secondary
                        ELSE Staged.primary

\* C12 witness: with no live primary, a tap on a window other than the
\* secondary staged it as primary and kept the secondary.
C12_Witness ==
    /\ view.kind = "Overview"
    /\ ~Upgrades(windows, primary)
    /\ Upgrades(windows, secondary)
    /\ transaction # None
    /\ transaction[1].view = Some(Workspace)
    /\ transaction[1].secondary = secondary
    /\ transaction[1].primary = FocusedWindow.id
    /\ transaction[1].primary # secondary

(***************************************************************************)
(* SpecDrop: drag and drop in the overview. A touch inside the focused     *)
(* bounds is held until refresh lifts the window, the floating window is   *)
(* dragged to either side of the two marks at 1/3 and 2/3 of the output    *)
(* height, and released. A drag of one page before the hold focuses the    *)
(* second window.                                                          *)
(***************************************************************************)
MaxDropWindows == 2

MaxDropInputs == 6

\* One deadline, then one hold duration.
DropInstants ==
    { 0, MAX_TRANSACTION_DURATION + 1, MAX_TRANSACTION_DURATION + 1 + HOLD_DURATION }

\* The centre of the output, inside the focused bounds.
HoldPoint == Point(200, 300)

\* One page to the left of HoldPoint, and the points around the two marks.
DropPoints ==
    { Point(HoldPoint.x - OVERVIEW_HORIZONTAL_SENSITIVITY, HoldPoint.y),
      Point(200, 199), Point(200, 200), Point(200, 399), Point(200, 400) }

NextDrop ==
    \/ Add(MaxDropWindows)
    \/ Draw
    \/ Refresh
    \/ ToggleView
    \/ OnTouchStart({ HoldPoint }, MaxDropInputs)
    \/ OnDrag(DropPoints, MaxDropInputs)
    \/ OnDragRelease(MaxDropInputs)
    \/ Tick(DropInstants)

SpecDrop == Init /\ [][NextDrop]_vars

(***************************************************************************)
(* Dropping the floating window.                                           *)
(***************************************************************************)
\* A window is floating over a non-empty overview.
Floating ==
    /\ view.kind = "Overview"
    /\ view.floating_position # None
    /\ Len(windows) > 0

\* C13: on_drag_release while a window is floating. With the last touch
\* point in the top third (y < height / 3) the focused window is staged as
\* primary together with the view Workspace, and the commit of that
\* transaction makes it the primary; at or below the 2/3 mark the focused
\* window is staged as secondary together with the view Workspace; in the
\* middle third nothing is staged, the view stays Overview and
\* floating_position is cleared.
C13_DropThirds ==
    (~panicked /\ Floating) =>
        \A overflow_checks \in BOOLEAN :
            LET r == on_drag_release(Registry, now, overflow_checks)
                y == view.last_drag_point.y
            IN /\ 3 * y < OutputSize.h =>
                    /\ ~r.panicked
                    /\ r.transaction # None
                    /\ r.transaction[1].primary = FocusedWindow.id
                    /\ r.transaction[1].view = Some(Workspace)
                    /\ commit(r).primary = FocusedWindow.id
                    /\ commit(r).view = Workspace
               /\ 3 * y >= 2 * OutputSize.h =>
                    /\ ~r.panicked
                    /\ r.transaction # None
                    /\ r.transaction[1].secondary = FocusedWindow.id
                    /\ r.transaction[1].view = Some(Workspace)
               /\ (OutputSize.h <= 3 * y /\ 3 * y < 2 * OutputSize.h) =>
                    /\ r.transaction = transaction
                    /\ r.windows = windows
                    /\ r.primary = primary
                    /\ r.secondary = secondary
                    /\ r.view.kind = "Overview"
                    /\ r.view.floating_position = None

\* C13 witness: the second window of the overview was lifted, dragged into
\* the top third and released while another window was the live primary;
\* it is staged as primary together with the view Workspace.
C13_Witness ==
    /\ Floating
    /\ 3 * view.last_drag_point.y < OutputSize.h
    /\ Len(windows) = 2
    /\ windows[1].id = 2
    /\ windows[2].id = 1
    /\ primary = 2
    /\ FocusedWindow.id = 1
    /\ transaction # None
    /\ transaction[1].primary = 1
    /\ transaction[1].view = Some(Workspace)

(***************************************************************************)
(* Overview::clamp_offset and the copy of the view it works on.            *)
(***************************************************************************)
OVERDRAG_LIMIT == 3

OVERDRAG_ANIMATION_SPEED == 25

CLOSE_CANCEL_ANIMATION_SPEED == <<3, 10>>

\* f64::clamp
Clamp(x, lo, hi) == Max(lo, Min(x, hi))

\* Mutation: the bounce-back steps are not capped at the distance left.
clamp_offset_overshooting(overview, window_count, t) ==
    LET S == OVERVIEW_HORIZONTAL_SENSITIVITY
        cn == CLOSE_CANCEL_ANIMATION_SPEED[1]
        cd == CLOSE_CANCEL_ANIMATION_SPEED[2]
        min_offset == (-window_count + 1) * S
        x0 == Clamp(overview.x_offset, min_offset - OVERDRAG_LIMIT * S, OVERDRAG_LIMIT * S)
    IN IF overview.last_overdrag_step = None
       THEN [overview EXCEPT !.x_offset = x0, !.y_offset = <<@ * cn, cn>>]
       ELSE
       LET delta == t - overview.last_overdrag_step[1]
           overdrag_delta == (delta * S) \div OVERDRAG_ANIMATION_SPEED
           x1 == IF x0 > 0 THEN x0 - overdrag_delta
                 ELSE IF x0 < min_offset THEN x0 + overdrag_delta
                 ELSE x0
           y == overview.y_offset * cn
           y1 == IF y < 0 THEN y + delta * cd ELSE y - delta * cd
       IN [overview EXCEPT !.x_offset = x1,
                           !.y_offset = <<y1, cn>>,
                           !.last_overdrag_step = Some(t)]

\* Overview::clamp_offset at instant t. x_offset is in units of
\* 1/OVERVIEW_HORIZONTAL_SENSITIVITY of a page as everywhere, x_error its
\* rounding error; the y_offset of the result is the fraction
\* <<numerator, denominator>>, the division by CLOSE_CANCEL_ANIMATION_SPEED
\* being exact in that form.
clamp_offset(overview, window_count, t) ==
    LET S == OVERVIEW_HORIZONTAL_SENSITIVITY
        cn == CLOSE_CANCEL_ANIMATION_SPEED[1]
        cd == CLOSE_CANCEL_ANIMATION_SPEED[2]
        \* Limit maximum overdrag.
        min_offset == (-window_count + 1) * S
        lo == min_offset - OVERDRAG_LIMIT * S
        hi == OVERDRAG_LIMIT * S
        x0 == Clamp(overview.x_offset, lo, hi)
        \* a clamped offset is the bound itself
        e0 == IF overview.x_offset > hi \/ overview.x_offset < lo THEN 0
              ELSE IF overview.x_offset = hi THEN Min(overview.x_error, 0)
              ELSE IF overview.x_offset = lo THEN Max(overview.x_error, 0)
              ELSE overview.x_error
    IN IF overview.last_overdrag_step = None
       THEN [overview EXCEPT !.x_offset = x0, !.x_error = e0,
                             !.y_offset = <<@ * cn, cn>>]
       ELSE
       LET \* Compute framerate-independent delta.
           delta == t - overview.last_overdrag_step[1]
           overdrag_delta == (delta * S) \div OVERDRAG_ANIMATION_SPEED
           overdrag_error == F64Round(overdrag_delta, 0)
           close_delta == delta * cd
           \* Overdrag bounce-back.
           positive == x0 > 0 \/ (x0 = 0 /\ e0 > 0)
           below == x0 < min_offset \/ (x0 = min_offset /\ e0 < 0)
           \* overdrag_delta.min(self.x_offset) is the delta
           stepped == \/ overdrag_delta < x0
                      \/ overdrag_delta = x0 /\ overdrag_error < e0
           sum_error == F64Round(x0 + overdrag_delta, e0 + overdrag_error)
           \* (self.x_offset + overdrag_delta).min(min_offset) is the sum
           short == \/ x0 + overdrag_delta < min_offset
                    \/ x0 + overdrag_delta = min_offset /\ sum_error < 0
           x1 == IF positive THEN (IF stepped THEN x0 - overdrag_delta ELSE 0)
                 ELSE IF below THEN (IF short THEN x0 + overdrag_delta ELSE min_offset)
                 ELSE x0
           e1 == IF positive
                 THEN (IF stepped
                       THEN F64Round(x0 - overdrag_delta, e0 - overdrag_error)
                       ELSE 0)
                 ELSE IF below THEN (IF short THEN sum_error ELSE 0)
                 ELSE e0
           \* Close window bounce-back.
           y == overview.y_offset * cn
           step == Min(close_delta, Abs(y))
           y1 == IF y < 0 THEN y + step ELSE y - step
       IN [overview EXCEPT !.x_offset = x1,
                           !.x_error = e1,
                           !.y_offset = <<y1, cn>>,
                           !.last_overdrag_step = Some(t)]

\* The overview Overview::draw renders from: Windows::draw matches self.view
\* by value, View is Copy, so clamp_offset works on a copy that is dropped at
\* the end of the draw; draw(r, t) returns r.view as it was.
DrawnOverview(r, t) == clamp_offset(r.view, Len(r.windows), t)

(***************************************************************************)
(* SpecDrag: paging and closing drags in the overview. A touch at the left *)
(* edge, drags of almost the whole output width to the right, and vertical *)
(* drags that stop at the close distance and one unit short of it.         *)
(***************************************************************************)
MaxDragWindows == 2

MaxDragInputs == 5

\* One deadline.
DragInstants == { 0, MAX_TRANSACTION_DURATION + 1 }

\* Where the gestures start.
DragStart == Point(0, 300)

\* A point 399 units to the right of DragStart, one 300 units (the close
\* distance) above it and one 299 units above it.
DragPoints == { Point(399, 300), Point(0, 0), Point(0, 1) }

\* A touch drag; the offsets accumulate without a cap, the number of inputs
\* bounds them.
OnDragFree(points, max_inputs) ==
    /\ ~panicked
    /\ inputs < max_inputs
    /\ inputs' = inputs + 1
    /\ \E point \in points : Apply(on_drag(Registry, now, point))
    /\ UNCHANGED <<now, created, damage, call, toplevel>>

NextDrag ==
    \/ Add(MaxDragWindows)
    \/ Draw
    \/ ToggleView
    \/ OnTouchStart({ DragStart }, MaxDragInputs)
    \/ OnDragFree(DragPoints, MaxDragInputs)
    \/ OnDragRelease(MaxDragInputs)
    \/ Tick(DragInstants)

SpecDrag == Init /\ [][NextDrag]_vars

(***************************************************************************)
(* Paging drags.                                                           *)
(***************************************************************************)
\* C14, as stated: with n >= 1 windows the x_offset of the registry's
\* Overview state is never outside
\* [-(n - 1) - OVERDRAG_LIMIT, OVERDRAG_LIMIT], whatever drags and draws
\* came before.
C14_Original ==
    (view.kind = "Overview" /\ Len(windows) >= 1) =>
        /\ view.x_offset >= (-(Len(windows) - 1) - OVERDRAG_LIMIT)
                                * OVERVIEW_HORIZONTAL_SENSITIVITY
        /\ view.x_offset <= OVERDRAG_LIMIT * OVERVIEW_HORIZONTAL_SENSITIVITY

\* The axis a move from one point to another latches when none is latched.
AxisOf(from, to) ==
    IF Abs(to.x - from.x) >= Abs(to.y - from.y) THEN "Horizontal" ELSE "Vertical"

\* The registry after a release, the touch start of the next gesture at
\* DragStart and its first drag move to point, all at the present instant.
NextGestureFirstMove(point) ==
    on_drag(on_touch_start(on_drag_release(Registry, now, FALSE), now, DragStart, FALSE),
            now, point)

\* C15, as stated: the drag axis is reset each gesture. After
\* on_drag_release, the first drag move of the next gesture, which follows
\* the next on_touch_start, latches the axis by comparing |dx| with |dy| of
\* that move.
C15_Original ==
    (/\ ~panicked
     /\ view.kind = "Overview"
     /\ view.floating_position = None
     /\ Len(windows) > 0) =>
        \A point \in DragPoints :
            NextGestureFirstMove(point).view.drag_direction
                = Some(AxisOf(DragStart, point))

\* C16: the first drag move in an overview without a latched axis latches
\* Horizontal when |dx| >= |dy| and Vertical otherwise, and once an axis is
\* latched no drag move, whatever its deltas, and no other step changes it
\* as long as the view stays the overview.
C16_AxisLatched ==
    /\ [](\A point \in DragPoints :
            (/\ ~panicked
             /\ view.kind = "Overview"
             /\ view.floating_position = None) =>
                on_drag(Registry, now, point).view.drag_direction =
                    IF view.drag_direction # None THEN view.drag_direction
                    ELSE Some(AxisOf(view.last_drag_point, point)))
    /\ [][(/\ view.kind = "Overview"
           /\ view.drag_direction # None
           /\ view'.kind = "Overview") =>
              view'.drag_direction = view.drag_direction]_vars

\* C16 witness: the axis was latched Vertical and is still Vertical after a
\* later move with |dx| >= |dy|, which moved the touch point to the right
\* edge and brought y_offset back to zero.
C16_Witness ==
    /\ view.kind = "Overview"
    /\ view.drag_direction = Some("Vertical")
    /\ view.last_drag_point = Point(399, 300)
    /\ view.x_offset = 0
    /\ view.y_offset = 0
    /\ ~view.close_release_pending

(***************************************************************************)
(* Closing drags.                                                          *)
(***************************************************************************)
\* The window on_drag sends a close request to (surface.send_close), as the
\* id of the window, or 0 when the move sends none.
send_close(r, point) ==
    LET ov == r.view
        y_offset == ov.y_offset + (point.y - ov.last_drag_point.y)
        vertical ==
            IF ov.drag_direction # None THEN ov.drag_direction[1] = "Vertical"
            ELSE AxisOf(ov.last_drag_point, point) = "Vertical"
    IN IF /\ ov.kind = "Overview"
          /\ ov.floating_position = None
          /\ vertical
          /\ ~ov.close_release_pending
          /\ Abs(y_offset) * OVERVIEW_CLOSE_DISTANCE[2]
                >= OutputSize.h * OVERVIEW_CLOSE_DISTANCE[1]
          /\ Len(r.windows) # 0
       THEN r.windows[focused_index(ov, Len(r.windows)) + 1].id
       ELSE 0

\* A drag move to point is a vertical one: the axis is latched Vertical, or
\* none is latched and the move latches Vertical.
VerticalMove(point) ==
    \/ view.drag_direction = Some("Vertical")
    \/ /\ view.drag_direction = None
       /\ AxisOf(view.last_drag_point, point) = "Vertical"

\* C17: in Overview with a non-empty window list, no floating window, the
\* axis Vertical and no close-release-cooldown, a drag move that brings
\* |y_offset| to half the output height or more sends a close request to the
\* window at focused_index, removes exactly that window from the list, sets
\* the cooldown and resets y_offset to 0; a move that leaves |y_offset|
\* below the threshold, be it by one unit, removes nothing, sends no close
\* request and does not set the cooldown.
C17_CloseThreshold ==
    \A point \in DragPoints :
        (/\ ~panicked
         /\ view.kind = "Overview"
         /\ view.floating_position = None
         /\ Len(windows) > 0
         /\ ~view.close_release_pending
         /\ VerticalMove(point)) =>
            LET r == on_drag(Registry, now, point)
                y_offset == view.y_offset + (point.y - view.last_drag_point.y)
                index == focused_index(view, Len(windows))
            IN IF 2 * Abs(y_offset) >= OutputSize.h
               THEN /\ send_close(Registry, point) = FocusedWindow.id
                    /\ Len(r.windows) = Len(windows) - 1
                    /\ \A j \in 1..Len(r.windows) :
                           r.windows[j].id = windows[IF j <= index THEN j ELSE j + 1].id
                    /\ r.view.close_release_pending
                    /\ r.view.y_offset = 0
               ELSE /\ send_close(Registry, point) = 0
                    /\ r.windows = windows
                    /\ ~r.view.close_release_pending
                    /\ r.view.y_offset = y_offset

\* C17 witness: a vertical drag that ended 300 units above the touch start
\* closed one of two windows and set the cooldown.
C17_Witness ==
    /\ view.kind = "Overview"
    /\ view.drag_direction = Some("Vertical")
    /\ view.close_release_pending
    /\ view.y_offset = 0
    /\ view.last_drag_point = Point(0, 0)
    /\ created = 2
    /\ Len(windows) = 1

\* A vertical drag stopped one unit short of the close distance: nothing is
\* closed.
C17_OneShort ==
    /\ view.kind = "Overview"
    /\ view.drag_direction = Some("Vertical")
    /\ ~view.close_release_pending
    /\ view.y_offset = -299
    /\ Len(windows) = created

(***************************************************************************)
(* SpecPosition: overview_x_position on its own. The percentages are the   *)
(* ones of the source's test and of the overview, the widths those of the  *)
(* test and of the output, positions are multiples of one half.            *)
(***************************************************************************)
MaxPosition == 2

Percentages == { <<1, 2>>, <<3, 4>> }

\* <<output_width, window_width>>
PositionWidths == { <<100, 50>>, <<101, 50>>, <<400, 300>>, <<400, 200>> }

\* Positions in halves.
HalfPositions == (-2 * MaxPosition)..(2 * MaxPosition)

\* A call of overview_x_position; position is given in halves.
OverviewPosition ==
    /\ \E fg_percentage \in Percentages, bg_percentage \in Percentages,
          widths \in PositionWidths, halves \in HalfPositions :
           call' = [ fn |-> "overview_x_position",
                     args |-> <<fg_percentage, bg_percentage, widths[1], widths[2], halves>>,
                     n |-> 1,
                     result |-> Some(overview_x_position(
                                   fg_percentage, bg_percentage, widths[1], widths[2],
                                   (halves * OVERVIEW_HORIZONTAL_SENSITIVITY) \div 2, 0)) ]
    /\ UNCHANGED <<registry_vars, toplevel>>
    /\ UNCHANGED damage

NextPosition == OverviewPosition

SpecPosition == Init /\ [][NextPosition]_vars

\* r is the non-negative real x rounded half away from zero, x being given
\* by its square num2 / den2.
IsRounded(r, num2, den2) ==
    /\ r >= 0
    /\ r = 0 \/ (2 * r - 1) * (2 * r - 1) * den2 <= 4 * num2
    /\ 4 * num2 < (2 * r + 1) * (2 * r + 1) * den2

\* The values of test::overview_position: output width 100, window width
\* 50, positions -2..2.
TestPositions(fg_percentage, bg_percentage) ==
    IF fg_percentage = <<1, 2>> /\ bg_percentage = <<1, 2>> THEN <<6, 13, 25, 37, 44>>
    ELSE IF fg_percentage = <<1, 2>> /\ bg_percentage = <<3, 4>> THEN <<2, 6, 25, 44, 48>>
    ELSE IF fg_percentage = <<3, 4>> /\ bg_percentage = <<3, 4>> THEN <<1, 3, 13, 47, 49>>
    ELSE <<>>

\* C18: overview_x_position(fg, bg, W, w, p) is round(s) for p <= 0 and
\* W - w - round(s) for p > 0, where s = bg_space * (1 - bg)^|p|,
\* bg_space = W * (1 - fg) / 2 and round rounds half away from zero; with
\* W = 100, w = 50 and the positions -2..2 it yields the values of the
\* source's test.
C18_OverviewPosition ==
    call.fn = "overview_x_position" =>
        LET fg == call.args[1]
            bg == call.args[2]
            W == call.args[3]
            w == call.args[4]
            halves == call.args[5]
            result == call.result[1]
            \* s squared: (W * (1 - fg) / 2)^2 * (1 - bg)^(2 |p|)
            num2 == (W * (fg[2] - fg[1])) * (W * (fg[2] - fg[1]))
                        * Pow(bg[2] - bg[1], Abs(halves))
            den2 == (2 * fg[2]) * (2 * fg[2]) * Pow(bg[2], Abs(halves))
            table == TestPositions(fg, bg)
        IN /\ IsRounded(IF halves > 0 THEN W - w - result ELSE result, num2, den2)
           /\ (/\ W = 100
               /\ w = 50
               /\ halves % 2 = 0
               /\ Abs(halves) <= 4
               /\ table # <<>>) => result = table[halves \div 2 + 3]

\* C18 witness: the call with fg = 0.75, bg = 0.75, W = 100, w = 50 at
\* position 0 returned 13, the half 12.5 rounded away from zero.
C18_Witness ==
    /\ call.fn = "overview_x_position"
    /\ call.args = << <<3, 4>>, <<3, 4>>, 100, 50, 0 >>
    /\ call.result = Some(13)

(***************************************************************************)
(* SpecDamage: the damage of one surface of buffer scale 1 without         *)
(* transform. Damage is added in three rectangles, in surface or in buffer *)
(* coordinates, at output scale 1 or 2 and cleared after an import; call   *)
(* records the run of consecutive clears and the damage it started from.   *)
(***************************************************************************)
MaxBufferDamage == 2

MaxClears == 3

DamageRects == { Rect(0, 0, 10, 10), Rect(20, 20, 10, 10), Rect(5, 5, 30, 30) }

OutputScales == { 1, 2 }

\* The damage a client reports: wl_surface.damage in surface coordinates,
\* wl_surface.damage_buffer in buffer coordinates.
SurfaceDamages ==
    { SurfaceDamage_Surface(rect) : rect \in DamageRects }
        \cup { SurfaceDamage_Buffer(rect) : rect \in DamageRects }

\* Damage arrives: SurfaceBuffer::add_damage with one rectangle.
AddDamage ==
    /\ Len(damage.buffer) < MaxBufferDamage
    /\ \E incoming \in SurfaceDamages, output_scale \in OutputScales :
           /\ damage' = add_damage(damage, output_scale, incoming, 1, "Normal", DefaultSize)
           /\ call' = [ fn |-> "add_damage", args |-> <<output_scale, incoming>>,
                        n |-> 1, result |-> None ]
    /\ UNCHANGED <<registry_vars, toplevel>>

\* The damage was imported: Damage::clear.
ClearDamage ==
    /\ call.fn = "clear" => call.n < MaxClears
    /\ damage' = Damage_clear(damage)
    /\ call' = IF call.fn = "clear"
               THEN [call EXCEPT !.n = @ + 1]
               ELSE [ fn |-> "clear", args |-> <<damage>>, n |-> 1, result |-> None ]
    /\ UNCHANGED <<registry_vars, toplevel>>

NextDamage ==
    \/ AddDamage
    \/ ClearDamage

SpecDamage == Init /\ [][NextDamage]_vars

\* Every slot of the ring of d is the empty rectangle.
RingEmpty(d) == \A k \in 1..Len(d.physical) : d.physical[k] = DefaultRect

\* C19: after Damage::clear the buffer-space damage list is empty, ring slot
\* 0 is the empty rectangle and each older slot k + 1 holds what slot k held
\* before the call, the oldest entry being discarded, whatever the damage
\* was before.
C19_ClearRotates ==
    LET d == Damage_clear(damage) IN
    /\ d.buffer = <<>>
    /\ Len(d.physical) = MAX_DAMAGE_AGE
    /\ d.physical[1] = DefaultRect
    /\ \A k \in 1..(MAX_DAMAGE_AGE - 1) : d.physical[k + 1] = damage.physical[k]

\* C19 witness: one clear of a damage with a non-empty slot 0, another
\* rectangle in slot 1 and a non-empty buffer-space list; slot 1 now holds
\* what slot 0 held.
C19_Witness ==
    /\ call.fn = "clear"
    /\ call.n = 1
    /\ call.args[1].buffer # <<>>
    /\ call.args[1].physical[1] # DefaultRect
    /\ call.args[1].physical[2] # DefaultRect
    /\ call.args[1].physical[2] # call.args[1].physical[1]
    /\ damage.buffer = <<>>
    /\ damage.physical[1] = DefaultRect
    /\ damage.physical[2] = call.args[1].physical[1]

\* C20, as stated: after n consecutive calls of Damage::clear with no
\* add_damage in between every slot of the ring is empty, for every n >= 1.
C20_Original ==
    (call.fn = "clear" /\ call.n >= 1) => RingEmpty(damage)

\* C20, amended: after n consecutive calls of Damage::clear with no
\* add_damage in between every slot of the ring is empty, for every
\* n >= MAX_DAMAGE_AGE, whatever damage was recorded before.
C20_ClearedRing ==
    (call.fn = "clear" /\ call.n >= MAX_DAMAGE_AGE) => RingEmpty(damage)

\* C20 witness: MAX_DAMAGE_AGE clears in a row, starting from a ring whose
\* slots were all non-empty, left the ring empty.
C20_Witness ==
    /\ call.fn = "clear"
    /\ call.n = MAX_DAMAGE_AGE
    /\ \A k \in 1..MAX_DAMAGE_AGE : call.args[1].physical[k] # DefaultRect
    /\ RingEmpty(damage)

(***************************************************************************)
(* Texture (drawing.rs). A texture is a record of its damage ring, logical *)
(* location, logical size and buffer scale. Physical coordinates are kept  *)
(* exact by integer output scales; the window scale is a fraction          *)
(* <<num, den>>.                                                           *)
(***************************************************************************)

\* Texture::from_surface: the ring is the surface's physical damage
from_surface(location, buffer_damage, size, scale) ==
    [ damage |-> buffer_damage.physical, location |-> location, size |-> size,
      scale |-> scale ]

\* Texture::new: every slot of the ring is the full physical size
Texture_new(size, output_scale) ==
    [ damage |-> Repeat(to_physical(Rect(0, 0, size.w, size.h), output_scale),
                        MAX_DAMAGE_AGE),
      location |-> Point(0, 0), size |-> size, scale |-> 1 ]

\* Point::scale (crate::geometry) with the fraction f
ScalePoint(p, f) == Point((p.x * f[1]) \div f[2], (p.y * f[1]) \div f[2])

\* Size::min / Size::max, component by component
SizeMin(a, b) == [ w |-> Min(a.w, b.w), h |-> Min(a.h, b.h) ]

SizeMax(a, b) == [ w |-> Max(a.w, b.w), h |-> Max(a.h, b.h) ]

\* The window bounds in texture coordinates.
scaled_window_bounds(window_bounds, window_scale) ==
    SizeMax(ScaleSize(RectSize(window_bounds), <<window_scale[2], window_scale[1]>>),
            [ w |-> 1, h |-> 1 ])

\* The texture lies completely outside of the window bounds.
OutsideBounds(texture, window_bounds, window_scale) ==
    LET scaled == scaled_window_bounds(window_bounds, window_scale)
    IN texture.location.x >= scaled.w \/ texture.location.y >= scaled.h

\* The destination rectangle of the texture in physical coordinates.
dst_physical(texture, output_scale, window_bounds, window_scale) ==
    LET scaled   == scaled_window_bounds(window_bounds, window_scale)
        src_size == SizeMin([ w |-> texture.size.w + texture.location.x,
                              h |-> texture.size.h + texture.location.y ], scaled)
        offset   == ScalePoint(texture.location, window_scale)
        dst_size == SizeMin(ScaleSize(src_size, window_scale), RectSize(window_bounds))
    IN to_physical(Rect(window_bounds.x + offset.x, window_bounds.y + offset.y,
                        dst_size.w, dst_size.h), output_scale)

\* &self.damage[..buffer_age] panics when buffer_age exceeds the array.
SlicePanics(ring, buffer_age) == buffer_age > Len(ring)

\* The damage draw_at renders with: the first buffer_age slots of the ring,
\* or one rectangle of the destination size for buffer age 0.
select_damage(texture, dst, buffer_age) ==
    IF buffer_age # 0
    THEN SubSeq(texture.damage, 1, buffer_age)
    ELSE << Rect(0, 0, dst.w, dst.h) >>

\* Mutation: damage is never found to be empty.
NoDamage_never(selected) == FALSE

\* damage.iter().all(|rect| rect == &Rectangle::default())
NoDamage(selected) == \A k \in 1..Len(selected) : selected[k] = DefaultRect

\* The outcome of a draw_at: whether it panicked, the damage it selected
\* (None when it did not get to select any) and the number of calls of
\* render_texture_from_to.
DrawOutcome(is_panic, selected, renders) ==
    [ panicked |-> is_panic, selected |-> selected, renders |-> renders ]

\* Texture::draw_at
draw_at(texture, output_scale, window_bounds, window_scale, buffer_age) ==
    IF OutsideBounds(texture, window_bounds, window_scale)
    THEN DrawOutcome(FALSE, None, 0)
    ELSE IF SlicePanics(texture.damage, buffer_age)
    THEN DrawOutcome(TRUE, None, 0)
    ELSE LET dst == dst_physical(texture, output_scale, window_bounds, window_scale)
             selected == select_damage(texture, dst, buffer_age)
         IN IF NoDamage(selected)
            THEN DrawOutcome(FALSE, Some(selected), 0)
            ELSE DrawOutcome(FALSE, Some(selected), 1)

(***************************************************************************)
(* SpecTexture: the texture of one surface is drawn. The surface collects  *)
(* damage and has it cleared by imports; a draw builds                     *)
(* the texture from the surface or from an RGBA buffer and renders it at   *)
(* some bounds, window scale and buffer age. call records the last draw.   *)
(***************************************************************************)
\* Largest buffer age handed to draw_at.
MaxBufferAge == 3

BufferAges == 0..MaxBufferAge

TextureSizes == { [ w |-> 40, h |-> 40 ], DefaultSize }

TextureLocations == { Point(0, 0), Point(50, 0) }

\* <<window_bounds, window_scale>>: the whole output, a half-size overview
\* window, and a small window at full scale.
WindowFrames ==
    { << Rect(0, 0, 100, 100), <<1, 1>> >>,
      << Rect(10, 10, 40, 40), <<1, 2>> >>,
      << Rect(10, 10, 40, 40), <<1, 1>> >> }

\* The textures a draw can be handed in the current state.
Textures(output_scale) ==
    { from_surface(location, damage, size, 1) :
          location \in TextureLocations, size \in TextureSizes }
    \cup { Texture_new(size, output_scale) : size \in TextureSizes }

\* One texture is drawn.
DrawAt ==
    /\ \E output_scale \in OutputScales, frame \in WindowFrames,
          buffer_age \in BufferAges :
         \E texture \in Textures(output_scale) :
           call' = [ fn |-> "draw_at",
                     args |-> <<texture, output_scale, frame[1], frame[2],
                                buffer_age>>,
                     n |-> 1,
                     result |-> Some(draw_at(texture, output_scale, frame[1],
                                             frame[2], buffer_age)) ]
    /\ UNCHANGED damage
    /\ UNCHANGED <<registry_vars, toplevel>>

\* The damage a client reports on the drawn surface.
TextureDamage == { Rect(5, 5, 30, 30) }

\* wl_surface.damage arrives for the drawn surface.
DamageSurface ==
    /\ Len(damage.buffer) < MaxBufferDamage
    /\ \E logical \in TextureDamage :
           /\ damage' = add_damage(damage, 1, SurfaceDamage_Surface(logical), 1, "Normal",
                                   DefaultSize)
           /\ call' = [ fn |-> "add_damage", args |-> <<1, logical>>, n |-> 1,
                        result |-> None ]
    /\ UNCHANGED <<registry_vars, toplevel>>

\* The drawn surface was imported: Damage::clear.
ImportSurface ==
    /\ damage' = Damage_clear(damage)
    /\ call' = [ fn |-> "clear", args |-> <<damage>>, n |-> 1, result |-> None ]
    /\ UNCHANGED <<registry_vars, toplevel>>

NextTexture ==
    \/ DamageSurface
    \/ ImportSurface
    \/ DrawAt

SpecTexture == Init /\ [][NextTexture]_vars

\* The last operation was a draw_at of a texture inside the window bounds.
DrewInside ==
    /\ call.fn = "draw_at"
    /\ ~OutsideBounds(call.args[1], call.args[3], call.args[4])

\* C21, as stated: a draw_at with buffer age 0 or a buffer age above
\* MAX_DAMAGE_AGE completes normally and uses one damage rectangle of the
\* full destination size, never slots of the ring; with a buffer age from 1
\* to MAX_DAMAGE_AGE it uses exactly the newest buffer_age slots.
C21_Original ==
    DrewInside =>
        LET texture == call.args[1]
            age     == call.args[5]
            out     == call.result[1]
            dst     == dst_physical(texture, call.args[2], call.args[3], call.args[4])
        IN /\ (age = 0 \/ age > 2) =>
                  /\ ~out.panicked
                  /\ out.selected = Some(<< Rect(0, 0, dst.w, dst.h) >>)
           /\ (1 <= age /\ age <= 2) =>
                  /\ ~out.panicked
                  /\ out.selected = Some(SubSeq(texture.damage, 1, age))

\* C22: a draw_at whose selected damage rectangles are all the zero
\* rectangle issues no render call; a draw_at of a texture located inside
\* the scaled bounds that selected at least one non-zero rectangle issues
\* exactly one render call.
C22_RenderCalls ==
    call.fn = "draw_at" =>
        LET out == draw_at(call.args[1], call.args[2], call.args[3], call.args[4],
                           call.args[5])
        IN out.selected # None =>
               LET selected == out.selected[1]
                   zero == \A k \in 1..Len(selected) : selected[k] = Rect(0, 0, 0, 0)
               IN /\ zero => out.renders = 0
                  /\ (~zero /\ ~OutsideBounds(call.args[1], call.args[3], call.args[4]))
                         => out.renders = 1

\* C22 witness: a surface texture inside the bounds whose two newest ring
\* slots were emptied by imports was drawn with buffer age 2 and issued no
\* render call.
C22_Witness ==
    /\ DrewInside
    /\ call.args[5] = 2
    /\ call.args[1].size # DefaultSize
    /\ call.result[1].selected = Some(<< DefaultRect, DefaultRect >>)
    /\ call.result[1].renders = 0

\* A draw of a surface texture inside the bounds and with damage in its
\* newest ring slot issued one render call at buffer age 1.
C22_Rendered ==
    /\ DrewInside
    /\ call.args[5] = 1
    /\ call.args[1].damage[1] # DefaultRect
    /\ call.result[1].renders = 1

(***************************************************************************)
(* SpecStage: staging with clients that answer. Two clients that receive   *)
(* their initial configure, ack sizes and die; the overview is used for    *)
(* one hold-and-drop gesture, which stages a secondary window. The         *)
(* instants lie inside a transaction's duration, past its deadline and     *)
(* past the hold duration.                                                 *)
(***************************************************************************)
MaxStageWindows == 2

MaxStageInputs == 3

MaxStageDead == 1

StageInstants ==
    { 0, MAX_TRANSACTION_DURATION \div 2, MAX_TRANSACTION_DURATION + 1,
      MAX_TRANSACTION_DURATION + 1 + HOLD_DURATION }

NextStage ==
    \/ Add(MaxStageWindows)
    \/ Draw
    \/ Refresh
    \/ ToggleView
    \/ TransactionUpdateDimensions
    \/ OnTouchStart({ HoldPoint }, MaxStageInputs)
    \/ OnDrag({ Point(200, 400) }, MaxStageInputs)
    \/ OnDragRelease(MaxStageInputs)
    \/ ClientAck
    \/ InitialConfigure
    \/ SurfaceDies(MaxStageDead)
    \/ Tick(StageInstants)

SpecStage == Init /\ [][NextStage]_vars

(***************************************************************************)
(* Window::update_dimensions.                                              *)
(***************************************************************************)
\* The rectangles a window is given, one of them in the overview's size.
StageRectangles ==
    { primary_rectangle(FALSE), primary_rectangle(TRUE), secondary_rectangle,
      Rect(0, 0, 300, 450) }

\* C23, as stated: Window::update_dimensions(rectangle) records the
\* rectangle as the window's pending rectangle and sends a configure exactly
\* when the rectangle differs from the previously pending one (the committed
\* rectangle when nothing was pending) and the initial configure has been
\* sent.
C23_Original ==
    \A i \in 1..Len(windows) : \A rectangle \in StageRectangles :
        LET w == [windows[i] EXCEPT !.configured = <<>>]
            pending == IF w.transaction # <<>>
                       THEN w.transaction[1].rectangle ELSE w.rectangle
            out == Window_update_dimensions(w, rectangle)
            sent == out.configured # <<>>
        IN /\ out.transaction # <<>>
           /\ out.transaction[1].rectangle = rectangle
           /\ sent <=> (rectangle # pending /\ w.initial_configure_sent)

\* C23, amended: Window::update_dimensions(rectangle) records the rectangle
\* as the window's pending rectangle; on a window whose surface is alive a
\* configure is sent if and only if the rectangle differs from the
\* previously pending one, which is the committed rectangle when nothing
\* was pending, and the initial configure has been sent; on a window whose
\* surface is dead no configure is sent.
C23_UpdateDimensions ==
    \A i \in 1..Len(windows) : \A rectangle \in StageRectangles :
        LET w == [windows[i] EXCEPT !.configured = <<>>]
            pending == IF w.transaction # <<>>
                       THEN w.transaction[1].rectangle ELSE w.rectangle
            out == Window_update_dimensions(w, rectangle)
            sent == out.configured # <<>>
        IN /\ out.transaction # <<>>
           /\ out.transaction[1].rectangle = rectangle
           /\ out.rectangle = w.rectangle
           /\ w.alive =>
                  (sent <=> (rectangle # pending /\ w.initial_configure_sent))
           /\ ~w.alive => ~sent

\* C23 witness: a live window that had its initial configure and was
\* committed at full size has been staged as the secondary, and was sent a
\* configure of the secondary's size, which it has not acked.
C23_Witness ==
    \E i \in 1..Len(windows) :
        /\ windows[i].alive
        /\ windows[i].initial_configure_sent
        /\ windows[i].rectangle = primary_rectangle(FALSE)
        /\ windows[i].acked_size = RectSize(primary_rectangle(FALSE))
        /\ windows[i].transaction = Some([rectangle |-> secondary_rectangle])
        /\ windows[i].configured = Some(RectSize(secondary_rectangle))

(***************************************************************************)
(* SpecSurface: one window and the buffers of its surface. The client      *)
(* attaches buffers of different scale and transform, removes them,        *)
(* reports damage and goes away; the registry stages and applies           *)
(* sub-transactions of the window and draws it, the renderer importing a   *)
(* buffer or failing to.                                                   *)
(***************************************************************************)
\* Number of buffers the client attaches.
MaxBuffers == 3

\* Number of damage rectangles collected by the surface.
MaxSurfaceDamage == 1

BufferSizes == { [ w |-> 40, h |-> 20 ] }

BufferScales == { 1, 2 }

BufferTransforms == { "Normal", "_90" }

\* wl_surface.commit with a new buffer: update_buffer, and the window is
\* flagged for import.
AttachBuffer ==
    /\ toplevel.window.alive
    /\ toplevel.attached < MaxBuffers
    /\ \E size \in BufferSizes, shm \in BOOLEAN,
          buffer_scale \in BufferScales, buffer_transform \in BufferTransforms :
           LET buffer == [ id |-> toplevel.attached + 1, size |-> size, shm |-> shm ]
               attributes == [ buffer_scale |-> buffer_scale,
                               buffer_transform |-> buffer_transform ]
           IN /\ toplevel' =
                     [toplevel EXCEPT
                          !.window.surface = update_buffer(@, attributes, NewBuffer(buffer)),
                          !.window.buffers_pending = TRUE,
                          !.attached = @ + 1]
              /\ call' = [ fn |-> "update_buffer",
                           args |-> <<toplevel.window.surface, attributes,
                                      NewBuffer(buffer)>>,
                           n |-> 1, result |-> None ]
    /\ UNCHANGED <<registry_vars, damage>>

\* wl_surface.commit with the buffer detached.
RemoveBuffer ==
    /\ toplevel.window.alive
    /\ toplevel.window.surface # SurfaceBuffer_default
    /\ \E buffer_scale \in BufferScales :
           LET attributes == [ buffer_scale |-> buffer_scale,
                               buffer_transform |-> "Normal" ]
           IN /\ toplevel' =
                     [toplevel EXCEPT
                          !.window.surface = update_buffer(@, attributes, Removed),
                          !.window.buffers_pending = TRUE]
              /\ call' = [ fn |-> "update_buffer",
                           args |-> <<toplevel.window.surface, attributes, Removed>>,
                           n |-> 1, result |-> None ]
    /\ UNCHANGED <<registry_vars, damage>>

\* wl_surface.damage on the window's surface.
DamageBuffer ==
    /\ toplevel.window.alive
    /\ Len(toplevel.window.surface.damage.buffer) < MaxSurfaceDamage
    /\ LET sb == toplevel.window.surface
       IN toplevel' = [toplevel EXCEPT !.window.surface.damage =
                           add_damage(@, 1, SurfaceDamage_Surface(Rect(0, 0, 10, 10)),
                                      sb.scale, sb.transform, sb.size)]
    /\ call' = [ fn |-> "add_damage", args |-> <<1, Rect(0, 0, 10, 10)>>, n |-> 1,
                 result |-> None ]
    /\ UNCHANGED <<registry_vars, damage>>

\* The window geometry a client sets.
WindowGeometries == { Rect(0, 0, 30, 30) }

\* xdg_surface.set_window_geometry, once.
SetGeometry ==
    /\ toplevel.window.alive
    /\ toplevel.window.geometry = None
    /\ \E geometry \in WindowGeometries :
           /\ toplevel' = [toplevel EXCEPT !.window.geometry = Some(geometry)]
           /\ call' = [ fn |-> "set_window_geometry", args |-> <<geometry>>, n |-> 1,
                        result |-> None ]
    /\ UNCHANGED <<registry_vars, damage>>

\* The registry stages a rectangle for the window.
StageWindow ==
    /\ \E rectangle \in { primary_rectangle(FALSE), secondary_rectangle } :
           toplevel' = [toplevel EXCEPT
                            !.window = Window_update_dimensions(@, rectangle)]
    /\ call' = [ fn |-> "update_dimensions", args |-> <<toplevel.window>>, n |-> 1,
                 result |-> None ]
    /\ UNCHANGED <<registry_vars, damage>>

\* The registry's commit applies the window's sub-transaction.
ApplyWindow ==
    /\ toplevel.window.alive
    /\ toplevel.window.transaction # None
    /\ toplevel' = [toplevel EXCEPT !.window = apply_transaction(@)]
    /\ call' = [ fn |-> "apply_transaction", args |-> <<toplevel.window>>, n |-> 1,
                 result |-> None ]
    /\ UNCHANGED <<registry_vars, damage>>

\* The window is drawn; n counts the draws since the last other operation.
DrawWindow ==
    /\ \E import_ok \in BOOLEAN :
           /\ toplevel' = [toplevel EXCEPT !.window = Window_draw(@, import_ok)]
           /\ call' = [ fn |-> "draw", args |-> <<toplevel.window, import_ok>>,
                        n |-> IF call.fn = "draw" THEN 2 ELSE 1,
                        result |-> None ]
    /\ UNCHANGED <<registry_vars, damage>>

\* The client destroys the surface or disconnects.
SurfaceDestroyed ==
    /\ toplevel.window.alive
    /\ toplevel' = [toplevel EXCEPT !.window.alive = FALSE]
    /\ call' = [ fn |-> "destroyed", args |-> <<>>, n |-> 1, result |-> None ]
    /\ UNCHANGED <<registry_vars, damage>>

NextSurface ==
    \/ AttachBuffer
    \/ RemoveBuffer
    \/ DamageBuffer
    \/ SetGeometry
    \/ StageWindow
    \/ ApplyWindow
    \/ DrawWindow
    \/ SurfaceDestroyed

SpecSurface == Init /\ [][NextSurface]_vars

(***************************************************************************)
(* Window::draw and the sub-transaction.                                   *)
(***************************************************************************)
\* C24, as stated: while the window has a pending sub-transaction a draw
\* imports no buffers, leaving the texture cache and buffers_pending as
\* they were; and on a window whose sub-transaction has been applied (it
\* has none pending) a draw performs the pending import and clears
\* buffers_pending.
C24_Original ==
    \A import_ok \in BOOLEAN :
        LET w == toplevel.window
            out == Window_draw(w, import_ok)
        IN /\ w.transaction # <<>> =>
                  /\ out.texture_cache = w.texture_cache
                  /\ out.buffers_pending = w.buffers_pending
           /\ (w.transaction = <<>> /\ w.buffers_pending) => ~out.buffers_pending

\* C24, amended: while the window has a pending sub-transaction a draw
\* imports no buffers, leaving the texture cache and buffers_pending as
\* they were, whatever the renderer would answer; on a window with a live
\* surface and no sub-transaction a draw performs the pending import: it
\* clears buffers_pending and rebuilds the texture cache, of the size of
\* the window geometry, from the surface's buffer; on a window whose
\* surface is dead a draw imports nothing and leaves the import pending.
C24_FrozenDraw ==
    \A import_ok \in BOOLEAN :
        LET w == toplevel.window
            out == Window_draw(w, import_ok)
        IN /\ w.transaction # <<>> =>
                  /\ out.texture_cache = w.texture_cache
                  /\ out.buffers_pending = w.buffers_pending
                  /\ out.surface = w.surface
           /\ (w.transaction = <<>> /\ w.buffers_pending /\ w.alive) =>
                  /\ ~out.buffers_pending
                  /\ out.texture_cache.geometry =
                         (IF w.geometry # <<>>
                          THEN [ w |-> w.geometry[1].w, h |-> w.geometry[1].h ]
                          ELSE [ w |-> 0, h |-> 0 ])
                  /\ (import_ok /\ w.surface.buffer # <<>>) =>
                         /\ Len(out.texture_cache.textures) = 1
                         /\ out.texture_cache.textures[1].texture.buffer
                                = w.surface.buffer[1].id
           /\ ~w.alive => out = w

\* C24 witness: the window was drawn twice with a pending sub-transaction and
\* a pending import of its second buffer; its texture cache still shows the
\* first buffer and the import is still pending.
C24_Witness ==
    /\ call.fn = "draw"
    /\ call.n = 2
    /\ toplevel.window.transaction # None
    /\ toplevel.window.buffers_pending
    /\ toplevel.window.surface.buffer # None
    /\ toplevel.window.surface.buffer[1].id = 2
    /\ Len(toplevel.window.texture_cache.textures) = 1
    /\ toplevel.window.texture_cache.textures[1].texture.buffer = 1

\* The first draw after the sub-transaction was applied imported the
\* second buffer.
C24_Imported ==
    /\ call.fn = "draw"
    /\ call.n = 1
    /\ call.args[1].transaction = None
    /\ call.args[1].buffers_pending
    /\ call.args[1].texture_cache.textures # <<>>
    /\ call.args[1].texture_cache.textures[1].texture.buffer = 1
    /\ ~toplevel.window.buffers_pending
    /\ toplevel.window.texture_cache.textures # <<>>
    /\ toplevel.window.texture_cache.textures[1].texture.buffer = 2

(***************************************************************************)
(* SurfaceBuffer::update_buffer.                                           *)
(***************************************************************************)
\* C26, as stated: after update_buffer with a new buffer the surface's
\* logical size is the buffer's dimensions converted with the buffer scale
\* and buffer transform of that assignment's surface attributes, also when
\* they differ from those of the previous buffer.
C26_Original ==
    (call.fn = "update_buffer" /\ call.args[3].kind = "NewBuffer") =>
        LET attributes == call.args[2]
            dimensions == call.args[3].buffer.size
            turned == IF attributes.buffer_transform = "_90"
                      THEN [ w |-> dimensions.h, h |-> dimensions.w ]
                      ELSE dimensions
        IN toplevel.window.surface.size =
               [ w |-> turned.w \div attributes.buffer_scale,
                 h |-> turned.h \div attributes.buffer_scale ]

\* The buffers a client can attach next.
NextBuffers ==
    { [ id |-> toplevel.attached + 1, size |-> size, shm |-> shm ] :
          size \in BufferSizes, shm \in BOOLEAN }

SurfaceAttributes ==
    { [ buffer_scale |-> buffer_scale, buffer_transform |-> buffer_transform ] :
          buffer_scale \in BufferScales, buffer_transform \in BufferTransforms }

\* C27: the surface's cached texture stems from the buffer assigned last;
\* update_buffer with a new buffer stores the buffer and clears the cached
\* texture, so that the next import caches a texture of the new buffer, not
\* the old one; update_buffer with a removal leaves no buffer, no texture,
\* empty damage and scale 1.
C27_TextureOfLastBuffer ==
    LET sb == toplevel.window.surface IN
    /\ sb.texture # <<>> => sb.texture[1].buffer = toplevel.attached
    /\ sb.buffer # <<>> => sb.buffer[1].id = toplevel.attached
    /\ \A attributes \in SurfaceAttributes :
           /\ \A buffer \in NextBuffers :
                  LET new == update_buffer(sb, attributes, [ kind |-> "NewBuffer",
                                                             buffer |-> buffer ])
                      imported == import_buffers(
                                      [toplevel.window EXCEPT !.surface = new,
                                                              !.alive = TRUE], TRUE)
                  IN /\ new.texture = <<>>
                     /\ new.buffer = << buffer >>
                     /\ imported.surface.texture = << [ buffer |-> buffer.id ] >>
                     /\ Len(imported.texture_cache.textures) = 1
                     /\ imported.texture_cache.textures[1].texture.buffer = buffer.id
           /\ LET gone == update_buffer(sb, attributes, [ kind |-> "Removed" ])
              IN /\ gone.buffer = <<>>
                 /\ gone.texture = <<>>
                 /\ gone.damage.buffer = <<>>
                 /\ \A k \in 1..Len(gone.damage.physical) :
                        gone.damage.physical[k] = Rect(0, 0, 0, 0)
                 /\ gone.scale = 1

\* C27 witness: a surface whose first buffer had been imported was assigned
\* a second buffer; its cached texture is gone and the second buffer stored.
C27_Witness ==
    /\ call.fn = "update_buffer"
    /\ call.args[3].kind = "NewBuffer"
    /\ call.args[1].texture = Some([ buffer |-> 1 ])
    /\ toplevel.window.surface.texture = None
    /\ toplevel.window.surface.buffer # None
    /\ toplevel.window.surface.buffer[1].id = 2

\* A surface with a texture, damage and scale 2 had its buffer removed.
C27_RemovedWitness ==
    /\ call.fn = "update_buffer"
    /\ call.args[3].kind = "Removed"
    /\ call.args[1].texture # None
    /\ call.args[1].damage.buffer # <<>>
    /\ call.args[1].scale = 2
    /\ toplevel.window.surface = SurfaceBuffer_default

(***************************************************************************)
(* refresh and dead windows.                                               *)
(***************************************************************************)
\* The weak reference is empty, dangling, or refers to a dead window.
DeadOrAbsent(weak) ==
    ~\E i \in 1..Len(windows) : windows[i].id = weak /\ windows[i].alive

\* What is staged before the call: the open transaction's choice, or the
\* live one a new transaction starts from.
StagedPrimary == IF transaction # None THEN transaction[1].primary ELSE primary

StagedSecondary == IF transaction # None THEN transaction[1].secondary ELSE secondary

\* C25: after refresh with a dead window in the registry a transaction is
\* open whose primary and secondary refer to no dead window: a dead or
\* absent staged secondary has become empty, and a dead or absent staged
\* primary has been replaced by the surviving staged secondary, which has
\* then become empty; with no dead window refresh leaves the transaction
\* slot as it was.
C25_RefreshReaps ==
    ~panicked =>
        LET r == refresh(Registry, now)
            dead == \E i \in 1..Len(windows) : ~windows[i].alive
            survivor == IF DeadOrAbsent(StagedSecondary) THEN 0 ELSE StagedSecondary
        IN /\ ~r.panicked
           /\ dead =>
                  /\ r.transaction # <<>>
                  /\ \A i \in 1..Len(windows) :
                         ~windows[i].alive =>
                             /\ r.transaction[1].primary # windows[i].id
                             /\ r.transaction[1].secondary # windows[i].id
                  /\ IF DeadOrAbsent(StagedPrimary)
                     THEN /\ r.transaction[1].primary = survivor
                          /\ r.transaction[1].secondary = 0
                     ELSE /\ r.transaction[1].primary = StagedPrimary
                          /\ r.transaction[1].secondary = survivor
           /\ ~dead => r.transaction = transaction

\* C25 witness: the live primary is dead and still listed, and the open
\* transaction stages the live secondary, which is alive, as primary and no
\* secondary.
C25_Witness ==
    /\ ~panicked
    /\ transaction # None
    /\ secondary # 0
    /\ primary # 0
    /\ \E i \in 1..Len(windows) : windows[i].id = primary /\ ~windows[i].alive
    /\ \E i \in 1..Len(windows) : windows[i].id = secondary /\ windows[i].alive
    /\ transaction[1].primary = secondary
    /\ transaction[1].secondary = 0

(***************************************************************************)
(* Sub-transactions and the registry transaction.                          *)
(***************************************************************************)
\* Some window has a pending sub-transaction.
SomeWindowFrozen(ws) == \E i \in 1..Len(ws) : ws[i].transaction # <<>>

\* C28: whenever a window has a pending sub-transaction a registry
\* transaction is open; and a draw that finds the open transaction past its
\* force-commit deadline (more than 200 ms after its start) commits it and
\* leaves no window with a sub-transaction.
C28_FrozenImpliesOpen ==
    ~panicked =>
        /\ SomeWindowFrozen(windows) => transaction # <<>>
        /\ (transaction # <<>> /\ now - transaction[1].start > 200) =>
               LET r == draw(Registry, now)
               IN /\ r.transaction = <<>>
                  /\ ~SomeWindowFrozen(r.windows)

\* C28 witness: past the deadline of the open transaction a live window is
\* still frozen, its pending size not acked.
C28_Witness ==
    /\ ~panicked
    /\ transaction # None
    /\ now - transaction[1].start > MAX_TRANSACTION_DURATION
    /\ \E i \in 1..Len(windows) :
           /\ windows[i].alive
           /\ windows[i].transaction # None
           /\ windows[i].acked_size # RectSize(windows[i].transaction[1].rectangle)

(***************************************************************************)
(* focused_index and the empty window list.                                *)
(***************************************************************************)
\* C29, as stated: whenever focused_index is evaluated the window list is
\* non-empty and the result is smaller than the window count. on_touch_start
\* and on_tap evaluate it (through focused_bounds) in every state whose
\* view is the overview, so the claim requires of every such state a
\* non-empty list and an index inside it, and that the next touch does not
\* end in a panic.
C29_Original ==
    (~panicked /\ view.kind = "Overview") =>
        /\ Len(windows) > 0
        /\ focused_index(view, Len(windows)) < Len(windows)
        /\ \A overflow_checks \in BOOLEAN :
               ~on_touch_start(Registry, now, DragStart, overflow_checks).panicked

(***************************************************************************)
(* The start of a transaction.                                             *)
(***************************************************************************)
\* Option<usize> over the window list: None and every valid index.
StageIndices == { <<>> } \cup { << i >> : i \in 0..(Len(windows) - 1) }

\* C30: a staging operation on an open transaction leaves its start time
\* alone, whatever the time of the operation: set_primary and set_secondary
\* with any index, toggle_view and refresh return a transaction with the
\* start it had, so its deadline stays 200 ms after the first staged change.
C30_StartKept ==
    (~panicked /\ transaction # <<>>) =>
        LET start == transaction[1].start
            Kept(r) == r.transaction # <<>> /\ r.transaction[1].start = start
        IN /\ \A index \in StageIndices :
                  /\ Kept(set_primary(Registry, now, index))
                  /\ Kept(set_secondary(Registry, now, index))
           /\ Kept(toggle_view(Registry, now))
           /\ Kept(refresh(Registry, now))

\* C30 witness: a transaction opened at instant 0 has been amended more than
\* a hold duration later by the drop that staged a secondary, and still
\* starts at 0.
C30_Witness ==
    /\ ~panicked
    /\ transaction # None
    /\ transaction[1].start = 0
    /\ now > HOLD_DURATION
    /\ secondary = 0
    /\ transaction[1].secondary # 0

(***************************************************************************)
(* The visible flag.                                                       *)
(***************************************************************************)
\* C31, as stated: after every complete operation a window's visible flag
\* is true exactly when the window is the staged primary or the staged
\* secondary of the open transaction, or the live primary or secondary when
\* no transaction is open; a former primary that set_primary made the
\* secondary is marked visible.
C31_Original ==
    ~panicked =>
        \A i \in 1..Len(windows) :
            windows[i].visible <=>
                (windows[i].id = StagedPrimary \/ windows[i].id = StagedSecondary)

(***************************************************************************)
(* The cooldown after a close.                                             *)
(***************************************************************************)
\* The points of further drag moves.
CooldownPoints == DragPoints \cup { DragStart, Point(0, 600) }

\* C32: while close_release_pending is set, a drag move changes neither
\* y_offset nor the window list and leaves the flag set, and so do a touch
\* start, a refresh and a draw that keeps the overview; on_drag_release
\* without a floating window clears the flag and starts the bounce-back
\* animation at the instant of the release.
C32_Cooldown ==
    (~panicked /\ view.kind = "Overview" /\ view.close_release_pending) =>
        /\ \A point \in CooldownPoints :
               LET r == on_drag(Registry, now, point)
               IN /\ r.view.close_release_pending
                  /\ r.windows = windows
                  /\ (view.floating_position = <<>>
                          /\ view.drag_direction = << "Vertical" >>)
                         => r.view.y_offset = view.y_offset
        /\ \A point \in CooldownPoints, overflow_checks \in BOOLEAN :
               LET r == on_touch_start(Registry, now, point, overflow_checks)
               IN ~r.panicked => r.view.close_release_pending
        /\ refresh(Registry, now).view.close_release_pending
        /\ LET r == draw(Registry, now)
           IN r.view.kind = "Overview" => r.view.close_release_pending
        /\ view.floating_position = <<>> =>
               \A overflow_checks \in BOOLEAN :
                   LET r == on_drag_release(Registry, now, overflow_checks)
                   IN /\ ~r.panicked
                      /\ ~r.view.close_release_pending
                      /\ r.view.last_overdrag_step = << now >>
                      /\ r.windows = windows

\* C32 witness: of two windows one was closed by the drag from (0, 300) to
\* (0, 0); the next move of the same gesture, to (0, 1), left the cooldown
\* set, y_offset at 0 and the other window in the list.
C32_Witness ==
    /\ ~panicked
    /\ view.kind = "Overview"
    /\ view.close_release_pending
    /\ inputs = 3
    /\ view.last_drag_point = Point(0, 1)
    /\ view.y_offset = 0
    /\ created = 2
    /\ Len(windows) = 1

(***************************************************************************)
(* The hold timer.                                                         *)
(***************************************************************************)
\* A refresh of registry r, at this instant or a hold duration later, sets
\* no floating position.
NeverPromoted(r) ==
    (~r.panicked /\ r.view.kind = "Overview" /\ r.view.floating_position = <<>>) =>
        \A t \in { now, now + 1000 } :
            refresh(r, t).view.floating_position = <<>>

\* C33, as stated: only refresh sets floating_position, to (0, 0) and
\* clearing the hold timer, and only when the timer armed by a touch start
\* has run for at least the hold duration of 1000 ms; after a drag move, a
\* tap or a release no later refresh sets floating_position.
C33_Original ==
    (~panicked /\ view.kind = "Overview" /\ view.floating_position = <<>>) =>
        /\ LET r == refresh(Registry, now)
               due == view.hold_start # <<>> /\ now - view.hold_start[1] >= 1000
           IN IF due
              THEN /\ r.view.floating_position = << [ x |-> 0, y |-> 0 ] >>
                   /\ r.view.hold_start = <<>>
              ELSE r.view.floating_position = <<>>
        /\ \A point \in TapPoints2 :
               /\ NeverPromoted(on_drag(Registry, now, point))
               /\ \A overflow_checks \in BOOLEAN :
                      NeverPromoted(on_tap(Registry, now, point, overflow_checks))
        /\ \A overflow_checks \in BOOLEAN :
               NeverPromoted(on_drag_release(Registry, now, overflow_checks))

(***************************************************************************)
(* The draw and the live overview.                                         *)
(***************************************************************************)
\* Whether the registry r1 is r after a commit that replaced the view.
ViewReplaced(r, r1) ==
    /\ r.transaction # None
    /\ r.transaction[1].view # None
    /\ r1.transaction = None
    /\ r1.view = r.transaction[1].view[1]

\* Whether the step is a drag move of the present state.
IsDragMove ==
    \E point \in DragPoints : view' = on_drag(Registry, now, point).view

\* C34: Windows::draw leaves the registry's Overview state as it was, the
\* x_offset, y_offset and last_overdrag_step included, unless its commit
\* replaces the view: the clamp runs on a copy. Between two Overview states
\* the live x_offset changes only by a drag move.
C34_DrawKeepsOverview ==
    /\ []((~panicked /\ view.kind = "Overview") =>
            LET r1 == draw(Registry, now)
            IN \/ ViewReplaced(Registry, r1)
               \/ /\ r1.view.kind = "Overview"
                  /\ r1.view.x_offset = view.x_offset
                  /\ r1.view.y_offset = view.y_offset
                  /\ r1.view.last_overdrag_step = view.last_overdrag_step
                  /\ r1.view = view)
    /\ [][(/\ view.kind = "Overview"
           /\ view'.kind = "Overview"
           /\ view'.x_offset # view.x_offset) => IsDragMove]_vars

\* An overview whose copy the draw clamps and animates: the drawn offset
\* differs from the live one, and the draw commits nothing.
C34_Witness ==
    /\ ~panicked
    /\ view.kind = "Overview"
    /\ Len(windows) > 0
    /\ transaction = None
    /\ view.last_overdrag_step # None
    /\ DrawnOverview(Registry, now).x_offset # view.x_offset
    /\ draw(Registry, now).view = view

(***************************************************************************)
(* toggle_view and the live view.                                          *)
(***************************************************************************)
\* Whether the view staged in r is the opposite of the view live, and the
\* default Overview state when it is an overview.
StagesOpposite(r, live) ==
    /\ r.transaction # None
    /\ r.transaction[1].view # None
    /\ LET staged == r.transaction[1].view[1]
       IN IF live.kind = "Workspace"
          THEN /\ staged.kind = "Overview"
               /\ staged.x_offset = 0
               /\ staged.y_offset = 0
               /\ staged.floating_position = <<>>
               /\ staged.drag_direction = <<>>
               /\ staged.last_overdrag_step = <<>>
               /\ staged.hold_start = <<>>
               /\ ~staged.close_release_pending
          ELSE staged.kind = "Workspace"

\* C35: toggle_view picks its target from the live view: after one call and
\* after two calls without a commit in between the staged view is the
\* opposite of the live view, whatever was staged before, the live view is as
\* it was, and a toggle into the overview stages the default Overview state.
C35_ToggleFromLive ==
    ~panicked =>
        LET r1 == toggle_view(Registry, now)
            r2 == toggle_view(r1, now)
        IN /\ StagesOpposite(r1, view)
           /\ StagesOpposite(r2, view)
           /\ r1.view = view
           /\ r2.view = view
           /\ r2.transaction = r1.transaction

\* A toggle is staged and not committed: the next toggle_view is the second
\* call without a commit in between.
C35_Witness ==
    /\ ~panicked
    /\ view.kind = "Workspace"
    /\ Len(windows) > 0
    /\ transaction # None
    /\ transaction[1].view # None
    /\ transaction[1].view[1].kind = "Overview"
    /\ toggle_view(Registry, now).transaction[1].view[1].kind = "Overview"

(***************************************************************************)
(* SpecCommit: the while loop of the commit, one pass of its body per      *)
(* step, on every list of up to MaxCommitWindows windows, each dead or     *)
(* alive and with or without a staged rectangle, and every placement of    *)
(* the staged primary and secondary in the list. call.n is the loop        *)
(* variable i, call.result the list so far. A behaviour is one run of the  *)
(* loop.                                                                   *)
(***************************************************************************)
MaxCommitWindows == 3

\* A window of the list the loop runs on.
CommitWindow(id, alive, staged) ==
    [Window_new(id) EXCEPT
        !.alive = alive,
        !.transaction = IF staged THEN Some([rectangle |-> primary_rectangle(FALSE)])
                        ELSE None]

\* The lists of n windows.
RECURSIVE CommitLists(_)
CommitLists(n) ==
    IF n = 0 THEN { <<>> }
    ELSE { Append(ws, CommitWindow(n, alive, staged)) :
               ws \in CommitLists(n - 1), alive \in BOOLEAN, staged \in BOOLEAN }

\* update_transaction reaches the loop: secondary_index is computed from the
\* live primary and i starts at the length of the list.
CommitStart ==
    /\ call = NoCall
    /\ \E n \in 0..MaxCommitWindows :
       \E ws \in CommitLists(n) :
       \E tx_primary \in 0..n, tx_secondary \in 0..n, live_primary \in { 0, 1 } :
           LET tx == [ primary |-> tx_primary, secondary |-> tx_secondary,
                       view |-> None, start |-> 0 ]
               secondary_index == Max(strong_count(ws, live_primary), 1)
           IN call' = [ fn |-> "commit_loop", args |-> <<ws, tx, secondary_index>>,
                        n |-> Len(ws), result |-> ws ]
    /\ UNCHANGED <<registry_vars, damage, toplevel>>

\* One pass of the loop body.
CommitLoopStep ==
    /\ call.fn = "commit_loop"
    /\ call.n > 0
    /\ LET next == commit_step(call.result, call.n, call.args[2], call.args[3])
       IN call' = [call EXCEPT !.n = next.n, !.result = next.ws]
    /\ UNCHANGED <<registry_vars, damage, toplevel>>

NextCommit ==
    \/ CommitStart
    \/ CommitLoopStep

\* The loop is a sequential piece of code: once entered it runs on.
SpecCommit ==
    /\ Init
    /\ [][NextCommit]_vars
    /\ WF_vars(CommitLoopStep)

\* The loop has been entered and has ended.
LoopEnded == call.fn = "commit_loop" /\ ~(call.n > 0)

\* Whether after is a permutation of exactly the windows of before that are
\* alive, each with its sub-transaction applied.
PermutationOfAlive(before, after) ==
    /\ \A j \in 1..Len(before) :
           before[j].alive =>
               Cardinality({ k \in 1..Len(after) : after[k].id = before[j].id }) = 1
    /\ Len(after) = Cardinality({ j \in 1..Len(before) : before[j].alive })
    /\ \A k \in 1..Len(after) :
           \E j \in 1..Len(before) :
               /\ before[j].id = after[k].id
               /\ before[j].alive
               /\ after[k].alive
               /\ after[k].transaction = <<>>
               /\ after[k].rectangle =
                      IF before[j].transaction # <<>>
                      THEN before[j].transaction[1].rectangle
                      ELSE before[j].rectangle

\* C36: the commit loop ends for every window list and every placement of
\* primary, secondary and dead windows, and the list it leaves is a
\* permutation of exactly the windows that were alive, none lost or
\* duplicated, each with its sub-transaction applied.
C36_CommitLoopEnds ==
    /\ (call.fn = "commit_loop") ~> LoopEnded
    /\ [](LoopEnded => PermutationOfAlive(call.args[1], call.result))

\* The loop ended on three windows after a removal and both swaps: a dead
\* window, the staged primary at the end of the list, the staged secondary
\* behind index 1.
C36_Witness ==
    /\ LoopEnded
    /\ Len(call.args[1]) = 3
    /\ ~call.args[1][1].alive
    /\ call.args[1][2].alive
    /\ call.args[1][3].alive
    /\ call.args[2].primary = 3
    /\ call.args[2].secondary = 2
    /\ Len(call.result) = 2
    /\ call.result[1].id = 3
    /\ call.result[2].id = 2

\* The step-wise loop agrees with commit_loop.
CommitLoopAgrees ==
    LoopEnded =>
        call.result = commit_loop(call.args[1], Len(call.args[1]), call.args[2],
                                  call.args[3])

(***************************************************************************)
(* The drawing order of Overview::draw (window.rs). An entry of the order  *)
(* is <<position, i>>: the window at index i is drawn at that position.    *)
(***************************************************************************)
\* self.x_offset.round() as i32: a half rounds away from zero, an offset
\* whose double falls short of the half rounds toward zero.
Round(x_offset, x_error) ==
    LET a == Abs(x_offset)
        S == OVERVIEW_HORIZONTAL_SENSITIVITY
        short == /\ a % S = S \div 2
                 /\ (x_offset < 0 /\ x_error > 0) \/ (x_offset > 0 /\ x_error < 0)
        magnitude == IF short THEN a \div S ELSE RoundDiv(a, S)
    IN IF x_offset >= 0 THEN magnitude ELSE -magnitude

\* The range a..b, b excluded, as a sequence.
RECURSIVE Range(_, _)
Range(a, b) == IF a >= b THEN <<>> ELSE <<a>> \o Range(a + 1, b)

\* Iterator::zip: ends with the shorter sequence.
RECURSIVE Zip(_, _)
Zip(s, t) ==
    IF Len(s) = 0 \/ Len(t) = 0 THEN <<>>
    ELSE << <<s[1], t[1]>> >> \o Zip(Tail(s), Tail(t))

\* Iterator::rev
RECURSIVE Rev(_)
Rev(s) == IF Len(s) = 0 THEN <<>> ELSE Append(Rev(Tail(s)), s[1])

\* Mutation: the non-negative positions are drawn in ascending order too.
DrawOrder_ascending(x_offset, x_error, window_count) ==
    LET min_inc == Round(x_offset, x_error)
        max_exc == window_count + min_inc
    IN Zip(Range(min_inc, 0), Range(0, window_count))
           \o Zip(Range(Max(min_inc, 0), max_exc), Range(-Min(min_inc, 0), window_count))

\* The iterator Overview::draw renders from, for the clamped x_offset and
\* the rounding error of its double. The two ranges of pos_iter have the
\* same length, so that the reversed zip drops nothing from the back.
DrawOrder(x_offset, x_error, window_count) ==
    LET min_inc == Round(x_offset, x_error)
        max_exc == window_count + min_inc
        neg_iter == Zip(Range(min_inc, 0), Range(0, window_count))
        pos_iter == Rev(Zip(Range(Max(min_inc, 0), max_exc),
                            Range(-Min(min_inc, 0), window_count)))
    IN neg_iter \o pos_iter

(***************************************************************************)
(* SpecOrder: Overview::draw on overviews of 1 to MaxOrderWindows windows  *)
(* whose x_offset two drags have left inside or outside the clamp range,   *)
(* in tenths of a page. The second drag ends on the half pages too, which  *)
(* the sum of two doubles can miss by an ulp.                              *)
(***************************************************************************)
MaxOrderWindows == 3

OrderOffsets ==
    { k * (OVERVIEW_HORIZONTAL_SENSITIVITY \div 10) :
          k \in (-10 * (MaxOrderWindows + OVERDRAG_LIMIT))..(10 * (OVERDRAG_LIMIT + 1)) }

\* The first drag: none, 0.2, 0.7 and 0.8 of a page.
OrderFirstDrags == { 0, 50, 175, 200 }

\* The overview after on_drag has added the two deltas to x_offset.
Dragged(first, second) ==
    LET e1 == F64Round(first, F64Round(first, 0))
    IN [DefaultOverview EXCEPT
           !.x_offset = first + second,
           !.x_error = F64Round(first + second, e1 + F64Round(second, 0))]

\* Overview::draw: the offsets are clamped, then the windows are drawn.
OverviewDraw ==
    /\ call = NoCall
    /\ \E window_count \in 1..MaxOrderWindows, first \in OrderFirstDrags,
          second \in OrderOffsets :
           LET overview == clamp_offset(Dragged(first, second), window_count, now)
           IN call' = [ fn |-> "Overview_draw",
                        args |-> <<first + second, window_count, overview.x_offset,
                                   overview.x_error>>,
                        n |-> 1,
                        result |-> Some(DrawOrder(overview.x_offset, overview.x_error,
                                                  window_count)) ]
    /\ UNCHANGED <<registry_vars, damage, toplevel>>

NextOrder == OverviewDraw

SpecOrder == Init /\ [][NextOrder]_vars

\* C37: for n >= 1 windows and an x_offset in the clamp range Overview::draw
\* draws each of the n windows exactly once: first the windows at negative
\* positions in ascending order of position, then the windows at
\* non-negative positions in descending order, so that the window nearest
\* the centre is drawn last.
C37_DrawOrder ==
    (/\ call.fn = "Overview_draw"
     /\ call.args[2] >= 1
     /\ call.args[3] >= (-(call.args[2] - 1) - 3) * OVERVIEW_HORIZONTAL_SENSITIVITY
     /\ call.args[3] <= 3 * OVERVIEW_HORIZONTAL_SENSITIVITY) =>
        LET order == call.result[1]
            n == call.args[2]
            negatives == Cardinality({ k \in 1..Len(order) : order[k][1] < 0 })
        IN /\ Len(order) = n
           /\ \A i \in 0..(n - 1) :
                  Cardinality({ k \in 1..Len(order) : order[k][2] = i }) = 1
           /\ \A k \in 1..Len(order) :
                  IF k <= negatives
                  THEN /\ order[k][1] < 0
                       /\ k > 1 => order[k - 1][1] < order[k][1]
                  ELSE /\ order[k][1] >= 0
                       /\ k > negatives + 1 => order[k - 1][1] > order[k][1]
           /\ \A k \in 1..Len(order) :
                  Abs(order[Len(order)][1]) <= Abs(order[k][1])

\* Three windows, the overview scrolled to the second: the window at the
\* negative position is drawn first, the focused one last.
C37_Witness ==
    /\ call.fn = "Overview_draw"
    /\ call.args[2] = 3
    /\ call.args[3] = -OVERVIEW_HORIZONTAL_SENSITIVITY
    /\ call.result = << << <<-1, 0>>, <<1, 2>>, <<0, 1>> >> >>

(***************************************************************************)
(* SpecClamp: one clamp_offset step on overviews of 0 to MaxClampWindows   *)
(* windows, x_offset in fifths of a page inside and outside the range,     *)
(* y_offset on both sides of 0, with and without an animation timestamp,   *)
(* after elapsed times from 0 ms to far more than any bounce-back takes.   *)
(* A behaviour is one call.                                                *)
(***************************************************************************)
MaxClampWindows == 2

ClampOffsets ==
    { k * (OVERVIEW_HORIZONTAL_SENSITIVITY \div 5) :
          k \in (-5 * (MaxClampWindows + OVERDRAG_LIMIT))..(5 * (OVERDRAG_LIMIT + 1)) }

ClampYOffsets == { -300, -1, 0, 1, 200 }

\* Milliseconds since the timestamp.
ClampElapsed == { 0, 1, 16, 1000, 100000 }

\* Overview::clamp_offset on an overview whose timestamp, if any, is instant 0.
ClampOffset ==
    /\ call = NoCall
    /\ \E window_count \in 0..MaxClampWindows, x_offset \in ClampOffsets,
          y_offset \in ClampYOffsets, animated \in BOOLEAN, elapsed \in ClampElapsed :
           LET overview == [DefaultOverview EXCEPT
                               !.x_offset = x_offset,
                               !.x_error = F64Round(x_offset, 0),
                               !.y_offset = y_offset,
                               !.last_overdrag_step = IF animated THEN Some(0) ELSE None]
           IN call' = [ fn |-> "clamp_offset",
                        args |-> <<overview, window_count, elapsed>>,
                        n |-> 1,
                        result |-> Some(clamp_offset(overview, window_count, elapsed)) ]
    /\ UNCHANGED <<registry_vars, damage, toplevel>>

NextClamp == ClampOffset

SpecClamp == Init /\ [][NextClamp]_vars

\* The call recorded is a clamp_offset step with an animation timestamp.
ClampAnimated == call.fn = "clamp_offset" /\ call.args[1].last_overdrag_step # <<>>

\* min_offset = -(window_count - 1), in the units of x_offset.
ClampMinOffset == -(call.args[2] - 1) * OVERVIEW_HORIZONTAL_SENSITIVITY

\* An x_offset above 0 decreases, but not below 0.
ClampAboveZero ==
    LET x == call.args[1].x_offset
        after == call.result[1].x_offset
    IN x > 0 => /\ after >= 0
                /\ after <= x
                /\ call.args[3] > 0 => after < x

\* An x_offset below min_offset increases, but not above min_offset.
ClampBelowMin ==
    LET x == call.args[1].x_offset
        after == call.result[1].x_offset
    IN x < ClampMinOffset => /\ after <= ClampMinOffset
                             /\ after >= x
                             /\ call.args[3] > 0 => after > x

\* An x_offset inside [min_offset, 0] is unchanged.
ClampInside ==
    LET x == call.args[1].x_offset
    IN (x >= ClampMinOffset /\ x <= 0) => call.result[1].x_offset = x

\* y_offset moves toward 0 without changing sign; the result is the fraction
\* <<numerator, denominator>>.
ClampYTowardZero ==
    LET y == call.args[1].y_offset
        after == call.result[1].y_offset
    IN /\ after[2] > 0
       /\ y >= 0 => (after[1] >= 0 /\ after[1] <= y * after[2])
       /\ y <= 0 => (after[1] <= 0 /\ after[1] >= y * after[2])
       /\ (call.args[3] > 0 /\ y # 0) => after[1] # y * after[2]

\* The x update does not depend on y_offset nor the y update on x_offset.
ClampIndependent ==
    /\ \A y_offset \in ClampYOffsets :
           clamp_offset([call.args[1] EXCEPT !.y_offset = y_offset],
                        call.args[2], call.args[3]).x_offset
               = call.result[1].x_offset
    /\ \A x_offset \in ClampOffsets :
           clamp_offset([call.args[1] EXCEPT !.x_offset = x_offset],
                        call.args[2], call.args[3]).y_offset
               = call.result[1].y_offset

\* Without an animation timestamp neither offset is animated: x_offset is
\* limited to the overdrag range and no more, y_offset keeps its value and
\* no timestamp is set.
ClampNotAnimated ==
    (call.fn = "clamp_offset" /\ call.args[1].last_overdrag_step = <<>>) =>
        LET x == call.args[1].x_offset
            lo == ClampMinOffset - 3 * OVERVIEW_HORIZONTAL_SENSITIVITY
            hi == 3 * OVERVIEW_HORIZONTAL_SENSITIVITY
            after == call.result[1]
        IN /\ after.x_offset = (IF x < lo THEN lo ELSE IF x > hi THEN hi ELSE x)
           /\ after.y_offset[1] = call.args[1].y_offset * after.y_offset[2]
           /\ after.last_overdrag_step = <<>>

\* C38, as stated: one clamp_offset step with an animation timestamp never
\* overshoots, for any elapsed time and any window count: an x_offset above
\* 0 decreases but not below 0, an x_offset below min_offset increases but
\* not above min_offset, one inside [min_offset, 0] is unchanged, y_offset
\* moves toward 0 without changing sign, the two updates do not depend on
\* each other, and without a timestamp neither is animated.
C38_Original ==
    /\ ClampAnimated =>
           /\ ClampAboveZero
           /\ ClampBelowMin
           /\ ClampInside
           /\ ClampYTowardZero
           /\ ClampIndependent
    /\ ClampNotAnimated

\* C38, amended: the same for every x_offset below min_offset that is not
\* above 0; with no window min_offset is 1 and an x_offset between 0 and 1
\* decreases.
C38_NoOvershoot ==
    /\ ClampAnimated =>
           /\ ClampAboveZero
           /\ call.args[1].x_offset <= 0 => ClampBelowMin
           /\ ClampInside
           /\ ClampYTowardZero
           /\ ClampIndependent
    /\ ClampNotAnimated

\* A step after an elapsed time far longer than the bounce-back takes, on an
\* overview overdragged to the right and dragged up: both offsets end at 0.
C38_Witness ==
    /\ ClampAnimated
    /\ call.args[2] = 2
    /\ call.args[3] = 100000
    /\ call.args[1].x_offset = 2 * OVERVIEW_HORIZONTAL_SENSITIVITY
    /\ call.args[1].y_offset = -300
    /\ call.result[1].x_offset = 0
    /\ call.result[1].y_offset[1] = 0

(***************************************************************************)
(* add_damage and ring slot 0.                                             *)
(***************************************************************************)
\* Whether rectangle a contains rectangle b.
ContainsRect(a, b) ==
    /\ a.x <= b.x
    /\ a.y <= b.y
    /\ b.x + b.w <= a.x + a.w
    /\ b.y + b.h <= a.y + a.h

\* The physical-space image of a damage rectangle on a surface of size
\* 40x20: a rectangle in surface coordinates times the output scale; one in
\* buffer coordinates turned back inside the 40x20 surface's buffer, divided
\* by the buffer scale, times the output scale.
PhysicalImage(incoming, output_scale, scale, transform) ==
    LET r == incoming.rect
        logical ==
            IF incoming.kind = "Surface" THEN r
            ELSE IF transform = "Normal"
            THEN [ x |-> r.x \div scale, y |-> r.y \div scale,
                   w |-> r.w \div scale, h |-> r.h \div scale ]
            ELSE LET y == 20 * scale - r.x - r.w
                 IN [ x |-> r.y \div scale,
                      y |-> IF y < 0 THEN -((-y) \div scale) ELSE y \div scale,
                      w |-> r.h \div scale, h |-> r.w \div scale ]
    IN [ x |-> logical.x * output_scale, y |-> logical.y * output_scale,
         w |-> logical.w * output_scale, h |-> logical.h * output_scale ]

\* C39: for an incoming damage rectangle, in surface or in buffer
\* coordinates, add_damage appends exactly one rectangle to the buffer-space
\* list (damage in buffer coordinates as it came) and enlarges ring slot 0
\* to a rectangle that contains the physical-space image of the incoming one
\* and what the slot held; ring slots 1 and above are unchanged. Hence slot 0
\* contains the physical image of every rectangle added since the last
\* clear.
C39_SlotZeroCovers ==
    /\ \A incoming \in SurfaceDamages, output_scale \in OutputScales :
       \A scale \in BufferScales, transform \in BufferTransforms :
           LET d == add_damage(damage, output_scale, incoming, scale, transform,
                               [ w |-> 40, h |-> 20 ])
               image == PhysicalImage(incoming, output_scale, scale, transform)
           IN /\ Len(d.buffer) = Len(damage.buffer) + 1
              /\ SubSeq(d.buffer, 1, Len(damage.buffer)) = damage.buffer
              /\ (scale = 1 /\ transform = "Normal") =>
                     d.buffer[Len(d.buffer)] = incoming.rect
              /\ incoming.kind = "Buffer" => d.buffer[Len(d.buffer)] = incoming.rect
              /\ ContainsRect(d.physical[1], image)
              /\ ContainsRect(d.physical[1], damage.physical[1])
              /\ Len(d.physical) = Len(damage.physical)
              /\ \A k \in 2..Len(damage.physical) : d.physical[k] = damage.physical[k]
    /\ \A k \in 1..Len(damage.buffer) :
           \E output_scale \in OutputScales :
               ContainsRect(damage.physical[1],
                        [ x |-> damage.buffer[k].x * output_scale,
                          y |-> damage.buffer[k].y * output_scale,
                          w |-> damage.buffer[k].w * output_scale,
                          h |-> damage.buffer[k].h * output_scale ])

\* Two rectangles were added after a clear that moved older damage to slot
\* 1: slot 0 holds both, slot 1 the older damage.
C39_Witness ==
    /\ call.fn = "add_damage"
    /\ call.args[2].kind = "Buffer"
    /\ Len(damage.buffer) = 2
    /\ damage.buffer[1] # damage.buffer[2]
    /\ damage.physical[2] # [ x |-> 0, y |-> 0, w |-> 0, h |-> 0 ]
    /\ ContainsRect(damage.physical[1], damage.buffer[1])
    /\ ContainsRect(damage.physical[1], damage.buffer[2])

(***************************************************************************)
(* The import over a surface tree (window.rs). A tree is a sequence of     *)
(* surfaces, each with the index of its parent (0 for the window's         *)
(* surface) and parents before their children; data is the SurfaceBuffer   *)
(* in the surface's data map, if any, and import_ok the renderer's answer  *)
(* to import_buffer for the surface's buffer. The cache pairs a texture    *)
(* with the index of the surface it was cached for.                        *)
(***************************************************************************)
\* Mutation: a failed import still descends into the children.
import_surface_descending(sb, import_ok) ==
    IF sb.texture # None
    THEN [ data |-> sb, cached |-> Some(CachedTexture(sb.texture[1], sb)), children |-> TRUE ]
    ELSE IF sb.buffer = None
    THEN [ data |-> sb, cached |-> None, children |-> FALSE ]
    ELSE IF import_ok
    THEN LET texture == [ buffer |-> sb.buffer[1].id ]
         IN [ data |-> [sb EXCEPT !.buffer = IF sb.buffer[1].shm THEN None ELSE @,
                                  !.texture = Some(texture)],
              cached |-> Some(CachedTexture(texture, sb)),
              children |-> TRUE ]
    ELSE [ data |-> [sb EXCEPT !.buffer = None], cached |-> None, children |-> TRUE ]

\* The closure import_buffers passes to with_surface_tree_upward, on a
\* surface with a SurfaceBuffer: the SurfaceBuffer after it, the texture
\* pushed to the cache, and whether the answer is DoChildren.
import_surface(sb, import_ok) ==
    \* Skip surface if buffer was already imported.
    IF sb.texture # None
    THEN [ data |-> sb, cached |-> Some(CachedTexture(sb.texture[1], sb)), children |-> TRUE ]
    \* Import and cache the buffer.
    ELSE IF sb.buffer = None
    THEN [ data |-> sb, cached |-> None, children |-> FALSE ]
    ELSE IF import_ok
    THEN LET texture == [ buffer |-> sb.buffer[1].id ]
         IN [ data |-> [sb EXCEPT !.buffer = IF sb.buffer[1].shm THEN None ELSE @,
                                  !.texture = Some(texture)],
              cached |-> Some(CachedTexture(texture, sb)),
              children |-> TRUE ]
    ELSE [ data |-> [sb EXCEPT !.buffer = None], cached |-> None, children |-> FALSE ]

\* The children of surface i, in the order of the tree.
ChildrenOf(surfaces, i) ==
    SelectSeq(Range(1, Len(surfaces) + 1), LAMBDA j : surfaces[j].parent = i)

\* with_surface_tree_upward, depth first: stack holds the surfaces still to
\* visit, the next one first. The closure is called on a surface, then on
\* the surfaces of its subtree if it answers DoChildren, then on its next
\* sibling.
RECURSIVE import_tree(_, _, _)
import_tree(surfaces, stack, textures) ==
    IF stack = <<>> THEN [ surfaces |-> surfaces, textures |-> textures ]
    ELSE LET i == Head(stack)
             s == surfaces[i]
         IN IF s.data = None
            THEN import_tree(surfaces, Tail(stack), textures)
            ELSE LET step == import_surface(s.data[1], s.import_ok)
                 IN import_tree([surfaces EXCEPT ![i].data = Some(step.data)],
                                IF step.children
                                THEN ChildrenOf(surfaces, i) \o Tail(stack)
                                ELSE Tail(stack),
                                IF step.cached # None
                                THEN Append(textures, [ surface |-> i,
                                                        texture |-> step.cached[1] ])
                                ELSE textures)

\* Window::draw on a window with a surface tree: importing says whether the
\* window has no sub-transaction, has buffers pending and a live surface.
\* The result holds the surfaces, the texture cache and the textures drawn.
Window_draw_tree(surfaces, cache, importing) ==
    LET imported == IF importing THEN import_tree(surfaces, <<1>>, <<>>)
                    ELSE [ surfaces |-> surfaces, textures |-> cache ]
    IN [ surfaces |-> imported.surfaces,
         textures |-> imported.textures,
         drawn |-> imported.textures ]

(***************************************************************************)
(* SpecImport: one draw of a window whose surface tree has up to           *)
(* MaxTreeSurfaces surfaces in every shape; a surface has no SurfaceBuffer,*)
(* no buffer, an imported texture, or a buffer whose import succeeds or    *)
(* fails. A behaviour is one draw.                                         *)
(***************************************************************************)
MaxTreeSurfaces == 4

SurfaceKinds == { "nodata", "empty", "texture", "buffer", "failing" }

\* The buffer attached to surface i; every other one is shared memory.
TreeBuffer(i) == [ id |-> i, size |-> [ w |-> 10, h |-> 10 ], shm |-> i % 2 = 0 ]

\* Surface i of the given kind below the given parent.
TreeSurface(i, parent, kind) ==
    [ parent |-> parent,
      import_ok |-> kind # "failing",
      data |-> IF kind = "nodata" THEN None
               ELSE IF kind = "empty" THEN Some(SurfaceBuffer_default)
               ELSE IF kind = "texture"
               THEN Some([SurfaceBuffer_default EXCEPT
                             !.size = [ w |-> 10, h |-> 10 ],
                             !.texture = Some([ buffer |-> i ])])
               ELSE Some([SurfaceBuffer_default EXCEPT
                             !.size = [ w |-> 10, h |-> 10 ],
                             !.buffer = Some(TreeBuffer(i))]) ]

\* The trees of n surfaces.
RECURSIVE Trees(_)
Trees(n) ==
    IF n = 0 THEN { <<>> }
    ELSE { Append(tree, TreeSurface(n, parent, kind)) :
               tree \in Trees(n - 1),
               parent \in (IF n = 1 THEN { 0 } ELSE 1..(n - 1)),
               kind \in SurfaceKinds }

\* The window is drawn.
DrawTree ==
    /\ call = NoCall
    /\ \E n \in 1..MaxTreeSurfaces :
       \E surfaces \in Trees(n), importing \in BOOLEAN :
           call' = [ fn |-> "draw_tree", args |-> <<surfaces, importing>>, n |-> 1,
                     result |-> Some(Window_draw_tree(surfaces, <<>>, importing)) ]
    /\ UNCHANGED <<registry_vars, damage, toplevel>>

NextImport == DrawTree

SpecImport == Init /\ [][NextImport]_vars

\* The ancestors of surface i.
RECURSIVE AncestorsOf(_, _)
AncestorsOf(surfaces, i) ==
    IF surfaces[i].parent = 0 THEN {}
    ELSE { surfaces[i].parent } \cup AncestorsOf(surfaces, surfaces[i].parent)

\* Surface i has a texture already or a buffer the renderer imports.
Importable(surfaces, i) ==
    /\ surfaces[i].data # <<>>
    /\ \/ surfaces[i].data[1].texture # <<>>
       \/ surfaces[i].data[1].buffer # <<>> /\ surfaces[i].import_ok

\* The renderer is asked to import the buffer of surface i and fails.
ImportFails(surfaces, i) ==
    /\ \A a \in AncestorsOf(surfaces, i) : Importable(surfaces, a)
    /\ surfaces[i].data # <<>>
    /\ surfaces[i].data[1].texture = <<>>
    /\ surfaces[i].data[1].buffer # <<>>
    /\ ~surfaces[i].import_ok

\* The number of textures cached for surface i.
CachedFor(textures, i) == Cardinality({ k \in 1..Len(textures) : textures[k].surface = i })

\* C40: when the renderer fails to import the buffer of a surface, the
\* surface's buffer reference is dropped and no texture is cached for it or
\* for any of its descendants in this import; the traversal goes on, so that
\* every other importable surface all of whose ancestors are importable has
\* its texture cached, and the draw is not aborted: it draws what was
\* cached.
C40_ImportFailure ==
    (call.fn = "draw_tree" /\ call.args[2]) =>
        LET surfaces == call.args[1]
            after == call.result[1]
        IN \A i \in 1..Len(surfaces) :
               ImportFails(surfaces, i) =>
                   /\ after.surfaces[i].data[1].buffer = <<>>
                   /\ after.surfaces[i].data[1].texture = <<>>
                   /\ \A j \in 1..Len(surfaces) :
                          IF j = i \/ i \in AncestorsOf(surfaces, j)
                          THEN CachedFor(after.textures, j) = 0
                          ELSE (/\ Importable(surfaces, j)
                                /\ \A a \in AncestorsOf(surfaces, j) :
                                       Importable(surfaces, a))
                                   => CachedFor(after.textures, j) = 1
                   /\ after.drawn = after.textures
                   /\ Len(after.surfaces) = Len(surfaces)

\* The import failed for a surface with a child that has a texture, next to
\* a sibling whose import succeeded: the root and the sibling are cached and
\* drawn, the failing surface and its child are not.
C40_Witness ==
    /\ call.fn = "draw_tree"
    /\ call.args[2]
    /\ Len(call.args[1]) = 4
    /\ ImportFails(call.args[1], 2)
    /\ call.args[1][3].parent = 2
    /\ call.args[1][3].data # <<>>
    /\ call.args[1][3].data[1].texture # <<>>
    /\ call.args[1][4].parent = 1
    /\ Len(call.result[1].drawn) = 2
    /\ CachedFor(call.result[1].textures, 1) = 1
    /\ CachedFor(call.result[1].textures, 4) = 1

\* On a single surface the tree import agrees with import_buffers.
ImportTreeAgrees ==
    (call.fn = "draw_tree" /\ call.args[2] /\ Len(call.args[1]) = 1
        /\ call.args[1][1].data # <<>>) =>
        LET w == [Toplevel_new.window EXCEPT !.surface = call.args[1][1].data[1],
                                             !.buffers_pending = TRUE]
            single == import_buffers(w, call.args[1][1].import_ok)
        IN /\ single.surface = call.result[1].surfaces[1].data[1]
           /\ Len(single.texture_cache.textures) = Len(call.result[1].textures)
           /\ \A k \in 1..Len(single.texture_cache.textures) :
                  single.texture_cache.textures[k] = call.result[1].textures[k].texture

====
